---- MODULE Spec2Model ----
(***************************************************************************)
(* Verification model of the retirement-calculator projection engine:      *)
(* accumulate, simulateDrawdown and solveRecommended                       *)
(* (src/src/RetirementCalculator.tsx, duplicated in src/unnamed/part_002), *)
(* the retirement planner of src/unnamed/part_001 and the investment       *)
(* calculators of src/src/InvestmentCalculator.tsx.                        *)
(*                                                                         *)
(* JavaScript numbers are IEEE-754 doubles.  A number is a record          *)
(* [kind, neg, num, exp]: NaN, an infinity, or the finite value            *)
(* (-1)^neg * num * 2^exp, num an odd natural of unbounded size kept as a  *)
(* little-endian digit sequence in base 2^13.  Every +, -, *, / and        *)
(* Math.sqrt is computed exactly and rounded to the nearest double, a tie  *)
(* to the even one; zero keeps its sign.  Math.pow, which the language     *)
(* leaves to the implementation, is the engine's port of the pow of fdlibm *)
(* (e_pow.c), followed operation by operation without fused multiply-add.  *)
(* The digit arithmetic avoids deep recursion: sums are taken with         *)
(* BagCardinality and carries by look-ahead.                               *)
(***************************************************************************)
EXTENDS Integers, Sequences, FiniteSets, Bags, TLC

NULL == <<>>

(* ------------------------- unbounded naturals -------------------------- *)
\* A natural number is the sequence of its digits in base 2^13, low digit
\* first, without high-order zeros (0 is the empty sequence).
BaseBits == 13
Base == 2^BaseBits

Max2(a, b) == IF a >= b THEN a ELSE b
Min2(a, b) == IF a <= b THEN a ELSE b

\* the sum of a finite function of naturals
Sum(f) == BagCardinality([i \in DOMAIN f |-> f[i] + 1]) - Cardinality(DOMAIN f)

SetMax(S) == CHOOSE i \in S : \A j \in S : j <= i
SetMin(S) == CHOOSE i \in S : \A j \in S : i <= j

Digit(a, i) == IF i >= 1 /\ i <= Len(a) THEN a[i] ELSE 0

\* the highest index of a non-zero entry, 0 when there is none
BTop(a) == SetMax({0} \cup {i \in 1..Len(a) : a[i] # 0})

\* drop the high-order zero digits
BTrim(a) == SubSeq(a, 1, BTop(a))

\* one carry pass over a vector of naturals
BPass(w) == [i \in 1..(Len(w) + 1) |-> (Digit(w, i) % Base) + (Digit(w, i - 1) \div Base)]

\* the last carries of a vector y of entries <= Base: a carry enters digit i
\* when a lower entry is Base and every entry between is Base - 1
BRipple(y) ==
  BTrim([i \in 1..Len(y) |->
           (y[i] + (IF \E j \in 1..(i - 1) :
                         y[j] >= Base /\ \A k \in (j + 1)..(i - 1) : y[k] = Base - 1
                    THEN 1 ELSE 0)) % Base])

\* the digits of sum_i v[i] * Base^(i-1), for entries v[i] < 2^31
BCarry(v) == BRipple(BPass(BPass(BPass(v))))

\* a natural below 2^31 as digits
BFromNat(n) == BTrim(<<n % Base, (n \div Base) % Base, n \div (Base * Base)>>)

\* digits as a natural (for values below 2^31)
BToNat(a) == Sum([i \in 1..Len(a) |-> a[i] * Base^(i - 1)])

BOne == <<1>>

\* -1, 0, 1 as a < b, a = b, a > b, for a and b of one length, by the highest
\* digit in which they differ
BCmpAt(a, b, top) == IF top = 0 THEN 0 ELSE IF a[top] < b[top] THEN -1 ELSE 1

BCmp(a, b) ==
  IF Len(a) < Len(b) THEN -1
  ELSE IF Len(a) > Len(b) THEN 1
  ELSE BCmpAt(a, b, SetMax({0} \cup {i \in 1..Len(a) : a[i] # b[i]}))

BAdd(a, b) == BCarry([i \in 1..Max2(Len(a), Len(b)) |-> Digit(a, i) + Digit(b, i)])

\* a - b for a >= b, as a + (Base^n - b) - Base^n with n = Len(a)
BSub(a, b) ==
  BTrim(SubSeq(BCarry([i \in 1..Len(a) |->
                         a[i] + (Base - 1 - Digit(b, i)) + (IF i = 1 THEN 1 ELSE 0)]),
               1, Len(a)))

\* a * k for 0 <= k < 2^18
BMulSmall(a, k) == BCarry([i \in 1..Len(a) |-> a[i] * k])

\* column i of the long multiplication of a by b: the low halves of the digit
\* products of weight i and the high halves of those of weight i - 1
BColumn(a, b, i) ==
  Sum([j \in Max2(1, i + 1 - Len(b))..Min2(Len(a), i) |-> (a[j] * b[i + 1 - j]) % Base])
    + Sum([j \in Max2(1, i - Len(b))..Min2(Len(a), i - 1) |-> (a[j] * b[i - j]) \div Base])

\* a * b
BMul(a, b) ==
  IF a = <<>> \/ b = <<>> THEN <<>>
  ELSE BCarry([i \in 1..(Len(a) + Len(b)) |-> BColumn(a, b, i)])

\* a * 2^k
BShl(a, k) ==
  BCarry([i \in 1..(Len(a) + k \div BaseBits) |->
            IF i <= k \div BaseBits THEN 0 ELSE a[i - k \div BaseBits] * 2^(k % BaseBits)])

\* floor(a / 2^(BaseBits * q + s)) for s < BaseBits
BShrBy(a, q, s) ==
  IF q >= Len(a) THEN <<>>
  ELSE BTrim([i \in 1..(Len(a) - q) |->
                (a[i + q] \div 2^s) + (Digit(a, i + q + 1) % 2^s) * 2^(BaseBits - s)])

\* floor(a / 2^k)
BShr(a, k) == BShrBy(a, k \div BaseBits, k % BaseBits)

\* the number of trailing zero bits of a digit d # 0
V2(d) == CHOOSE t \in 0..(BaseBits - 1) : d % 2^t = 0 /\ d % 2^(t + 1) # 0

\* the number of bits of a digit d # 0
BitLenDigit(d) == CHOOSE t \in 1..BaseBits : d < 2^t /\ d >= 2^(t - 1)

\* the number of trailing zero bits of a, whose lowest non-zero digit is a[z]
BV2At(a, z) == BaseBits * (z - 1) + V2(a[z])

\* the number of trailing zero bits of a # 0
BV2(a) == BV2At(a, SetMin({i \in 1..Len(a) : a[i] # 0}))

\* a (> 0) is a power of two
BIsPow2(a) == a[Len(a)] = 2^V2(a[Len(a)]) /\ \A i \in 1..(Len(a) - 1) : a[i] = 0

\* floor(t / b) for t < b * Base, b of top digit at least Base / 2: the estimate
\* from the top digits is the quotient or above it by at most 2
BQuotEstimate(t, b) ==
  Min2(Base - 1, (Digit(t, Len(b) + 1) * Base + Digit(t, Len(b))) \div b[Len(b)])

BQuotFrom(t, b, est) ==
  IF BCmp(BMulSmall(b, est), t) <= 0 THEN est
  ELSE IF BCmp(BMulSmall(b, est - 1), t) <= 0 THEN est - 1
  ELSE est - 2

BQuotDigit(t, b) == BQuotFrom(t, b, BQuotEstimate(t, b))

\* long division of a by b from digit i down: q holds the quotient digits and
\* r the remainder of the digits above digit i
RECURSIVE BDivFrom(_, _, _, _, _)
BDivDigit(a, b, i, q, t, d) == BDivFrom(a, b, i - 1, <<d>> \o q, BSub(t, BMulSmall(b, d)))
BDivNext(a, b, i, q, t) == BDivDigit(a, b, i, q, t, BQuotDigit(t, b))
BDivFrom(a, b, i, q, r) ==
  IF i = 0 THEN [q |-> BTrim(q), r |-> r]
  ELSE CHOOSE v \in {BDivNext(a, b, i, q, t) : t \in {BTrim(<<a[i]>> \o r)}} : TRUE

\* the quotient and the remainder of a by b, b of top digit at least Base / 2:
\* the top Len(b) - 1 digits of a are below b
BDivNormal(a, b) ==
  IF Len(a) < Len(b) THEN [q |-> <<>>, r |-> a]
  ELSE BDivFrom(a, b, Len(a) - Len(b) + 1, <<>>,
                BTrim(SubSeq(a, Len(a) - Len(b) + 2, Len(a))))

\* the quotient floor(a / b) and a remainder that is 0 when b divides a, for
\* b > 0: both are scaled to bring the top digit of b to Base / 2 or above
BDivShifted(a, b, s) ==
  CHOOSE v \in {BDivNormal(aa, bb) : aa \in {BShl(a, s)}, bb \in {BShl(b, s)}} : TRUE

BDivMod(a, b) == BDivShifted(a, b, BaseBits - BitLenDigit(b[Len(b)]))

\* floor(a / b) for b > 0
BDiv(a, b) == IF BIsPow2(b) THEN BShr(a, BV2(b)) ELSE BDivMod(a, b).q

\* Intermediate results are bound as elements of one-element sets, which
\* evaluates them before they are used.
The(S) == CHOOSE v \in S : TRUE

\* the number of bits of a
BBitLen(a) == IF a = <<>> THEN 0 ELSE BaseBits * (Len(a) - 1) + BitLenDigit(a[Len(a)])

\* bit j of a, bit 0 the lowest
BBit(a, j) == (Digit(a, j \div BaseBits + 1) \div 2^(j % BaseBits)) % 2

\* a^k for a natural a and k >= 0, by repeated squaring
RECURSIVE BPow(_, _)
BPow(a, k) ==
  IF k = 0 THEN BOne
  ELSE The({IF k % 2 = 1 THEN BMul(hh, a) ELSE hh :
              hh \in {BMul(h, h) : h \in {BPow(a, k \div 2)}}})

\* the digits of a written in decimal digits, after the value so far
RECURSIVE BFromDecimal(_, _)
BFromDecimal(digits, sofar) ==
  IF digits = <<>> THEN sofar
  ELSE BFromDecimal(Tail(digits), BAdd(BMulSmall(sofar, 10), BFromNat(Head(digits))))

(* ------------------------------- numbers ------------------------------- *)
\* A JavaScript number is an IEEE-754 double: NaN, an infinity, or the finite
\* value (-1)^neg * num * 2^exp with num odd or zero. Zero is num = <<>> with
\* exp = 0 and keeps its sign. The X operators compute on finite values
\* exactly; Dbl rounds an exact value to the nearest double, a tie to the even
\* one; the R operators are the operations of the language.
Finite(neg, n, e) == [kind |-> "finite", neg |-> neg, num |-> n, exp |-> e]

NaN == [kind |-> "nan", neg |-> FALSE, num |-> <<>>, exp |-> 0]

Infinity(neg) == [kind |-> "infinite", neg |-> neg, num |-> <<>>, exp |-> 0]

\* Number.isFinite, Number.isNaN
isFinite(x) == x.kind = "finite"
isNaN(x) == x.kind = "nan"

\* +0 or -0
isZero(x) == x.kind = "finite" /\ x.num = <<>>

\* n * 2^(e - k) with the k trailing zero bits of n moved to the exponent
XShifted(neg, n, e, k) == Finite(neg, IF k = 0 THEN n ELSE BShr(n, k), e + k)

\* the value n * 2^e
XNorm(neg, n, e) ==
  IF n = <<>> THEN Finite(neg, <<>>, 0) ELSE XShifted(neg, n, e, BV2(n))

\* an integer below 2^31 in magnitude
XInt(n) == XNorm(n < 0, BFromNat(IF n < 0 THEN -n ELSE n), 0)

XZero == XInt(0)
XOne == XInt(1)
XHalf == Finite(FALSE, BOne, -1)

\* 2^e
XPow2(e) == Finite(FALSE, BOne, e)

XNeg(x) == [x EXCEPT !.neg = ~x.neg]
XAbs(x) == [x EXCEPT !.neg = FALSE]

\* the numerator of x over 2^e, for e <= x.exp
XAligned(x, e) == IF x.exp = e THEN x.num ELSE BShl(x.num, x.exp - e)

\* signed sum of two numerators over 2^e; opposite values give +0
XSum(xneg, xn, yneg, yn, e) ==
  IF xneg = yneg THEN XNorm(xneg, BAdd(xn, yn), e)
  ELSE IF BCmp(xn, yn) > 0 THEN XNorm(xneg, BSub(xn, yn), e)
  ELSE IF BCmp(xn, yn) < 0 THEN XNorm(yneg, BSub(yn, xn), e)
  ELSE Finite(FALSE, <<>>, 0)

\* x + y exactly; a sum of zeros is -0 when both are
XAdd(x, y) ==
  IF x.num = <<>> THEN (IF y.num = <<>> THEN Finite(x.neg /\ y.neg, <<>>, 0) ELSE y)
  ELSE IF y.num = <<>> THEN x
  ELSE XSum(x.neg, XAligned(x, Min2(x.exp, y.exp)),
            y.neg, XAligned(y, Min2(x.exp, y.exp)), Min2(x.exp, y.exp))

XSub(x, y) == XAdd(x, XNeg(y))

\* x * y exactly (a product of odd numerators is odd)
XMul(x, y) ==
  IF x.num = <<>> \/ y.num = <<>> THEN Finite(x.neg # y.neg, <<>>, 0)
  ELSE Finite(x.neg # y.neg, BMul(x.num, y.num), x.exp + y.exp)

\* one above the exponent of the top bit of x # 0: 2^(XTop - 1) <= |x| < 2^XTop
XTop(x) == BBitLen(x.num) + x.exp

\* -1, 0, 1 as |x| < |y|, |x| = |y|, |x| > |y|, for x and y not zero
XCmpAbs(x, y) ==
  IF XTop(x) # XTop(y) THEN (IF XTop(x) < XTop(y) THEN -1 ELSE 1)
  ELSE BCmp(XAligned(x, Min2(x.exp, y.exp)), XAligned(y, Min2(x.exp, y.exp)))

\* -1, 0, 1 as x < y, x = y, x > y; the two zeros are equal
XCmp(x, y) ==
  IF x.num = <<>> THEN (IF y.num = <<>> THEN 0 ELSE IF y.neg THEN 1 ELSE -1)
  ELSE IF y.num = <<>> THEN (IF x.neg THEN -1 ELSE 1)
  ELSE IF x.neg # y.neg THEN (IF x.neg THEN -1 ELSE 1)
  ELSE (IF x.neg THEN -1 ELSE 1) * XCmpAbs(x, y)

XEq(x, y) == XCmp(x, y) = 0
XLt(x, y) == XCmp(x, y) < 0
XLe(x, y) == XCmp(x, y) <= 0

\* the integer at or below x; a zero result takes the sign of x
XFloor(x) ==
  IF x.exp >= 0 THEN x
  ELSE IF x.neg THEN XNorm(TRUE, BAdd(BShr(x.num, -x.exp), BOne), 0)
  ELSE XNorm(FALSE, BShr(x.num, -x.exp), 0)

\* x^k exactly for k >= 0
XPow(x, k) ==
  IF k = 0 THEN XOne
  ELSE IF x.num = <<>> THEN Finite(x.neg /\ k % 2 = 1, <<>>, 0)
  ELSE Finite(x.neg /\ k % 2 = 1, BPow(x.num, k), x.exp * k)

(* rounding to a double *)
\* 53 bits of precision; the least positive double is 2^-1074 and every
\* double is below 2^1024
MantissaBits == 53
MinExponent == -1074
TopExponent == 1024

\* the low bits of n * 2^e, of L bits, that a double does not keep
DblDrop(L, e) == Max2(L - MantissaBits, MinExponent - e)

\* the bits dropped from n are at or above one half of the last place kept:
\* above it, or at it with the last place kept odd (a tie goes to the even)
DblUp(n, drop) == BBit(n, drop - 1) = 1 /\ (BV2(n) < drop - 1 \/ BBit(n, drop) = 1)

\* q * 2^e with q of at most 53 bits: an infinity from 2^1024 on
DblRanged(neg, q, e) ==
  IF BBitLen(q) + e > TopExponent THEN Infinity(neg) ELSE XNorm(neg, q, e)

\* x # 0 with its `drop` low bits rounded away
DblCut(x, drop) ==
  IF drop <= 0 THEN DblRanged(x.neg, x.num, x.exp)
  ELSE DblRanged(x.neg,
                 IF DblUp(x.num, drop) THEN BAdd(BShr(x.num, drop), BOne)
                 ELSE BShr(x.num, drop),
                 x.exp + drop)

\* the double nearest to the exact value x
Dbl(x) == IF x.num = <<>> THEN x ELSE DblCut(x, DblDrop(BBitLen(x.num), x.exp))

\* the quotient q as 2q, plus 1 when the division left a remainder
DblQuotient(qr) ==
  IF qr.r = <<>> THEN BShl(qr.q, 1) ELSE BAdd(BShl(qr.q, 1), BOne)

\* the double nearest to (n / d) * 2^e for n, d > 0: the quotient is taken to
\* at least 56 bits, which leaves the rounding what it is for the exact value
DblRatioAt(neg, n, d, e, t) ==
  Dbl(XNorm(neg, DblQuotient(BDivMod(BShl(n, t), d)), e - t - 1))

DblRatio(neg, n, d, e) ==
  DblRatioAt(neg, n, d, e, Max2(0, MantissaBits + 3 + BBitLen(d) - BBitLen(n)))

(* the operations of the language *)
\* a whole number below 2^31 in magnitude
RInt(n) == XInt(n)

RNeg(x) == IF isNaN(x) THEN NaN ELSE [x EXCEPT !.neg = ~x.neg]

\* Math.abs
RAbs(x) == [x EXCEPT !.neg = FALSE]

\* x + y
RAdd(x, y) ==
  IF isFinite(x) /\ isFinite(y) THEN Dbl(XAdd(x, y))
  ELSE IF isNaN(x) \/ isNaN(y) THEN NaN
  ELSE IF isFinite(y) THEN x
  ELSE IF isFinite(x) \/ x.neg = y.neg THEN y
  ELSE NaN

\* x - y
RSub(x, y) == RAdd(x, RNeg(y))

\* x * y
RMul(x, y) ==
  IF isFinite(x) /\ isFinite(y) THEN Dbl(XMul(x, y))
  ELSE IF isNaN(x) \/ isNaN(y) \/ isZero(x) \/ isZero(y) THEN NaN
  ELSE Infinity(x.neg # y.neg)

\* x / y
RDiv(x, y) ==
  IF isNaN(x) \/ isNaN(y) THEN NaN
  ELSE IF ~isFinite(x) THEN (IF isFinite(y) THEN Infinity(x.neg # y.neg) ELSE NaN)
  ELSE IF ~isFinite(y) THEN Finite(x.neg # y.neg, <<>>, 0)
  ELSE IF y.num = <<>> THEN (IF x.num = <<>> THEN NaN ELSE Infinity(x.neg # y.neg))
  ELSE IF x.num = <<>> THEN Finite(x.neg # y.neg, <<>>, 0)
  ELSE DblRatio(x.neg # y.neg, x.num, y.num, x.exp - y.exp)

\* the literal n / d: the double nearest to it (d > 0)
R(n, d) == IF d = 1 THEN RInt(n) ELSE RDiv(RInt(n), RInt(d))

RZero == RInt(0)
ROne == RInt(1)
RHalf == XHalf
NegZero == Finite(TRUE, <<>>, 0)

\* -1, 0, 1 as x < y, x = y, x > y, for x and y not NaN
RCmp(x, y) ==
  IF isFinite(x) /\ isFinite(y) THEN XCmp(x, y)
  ELSE IF ~isFinite(x) /\ ~isFinite(y) THEN
    (IF x.neg = y.neg THEN 0 ELSE IF x.neg THEN -1 ELSE 1)
  ELSE IF ~isFinite(x) THEN (IF x.neg THEN -1 ELSE 1)
  ELSE (IF y.neg THEN 1 ELSE -1)

\* x === y, x < y, x <= y, x > y, x >= y: false when either is NaN
REq(x, y) == ~isNaN(x) /\ ~isNaN(y) /\ RCmp(x, y) = 0
RLt(x, y) == ~isNaN(x) /\ ~isNaN(y) /\ RCmp(x, y) < 0
RLe(x, y) == ~isNaN(x) /\ ~isNaN(y) /\ RCmp(x, y) <= 0
RGt(x, y) == ~isNaN(x) /\ ~isNaN(y) /\ RCmp(x, y) > 0
RGe(x, y) == ~isNaN(x) /\ ~isNaN(y) /\ RCmp(x, y) >= 0

\* Object.is(x, y): NaN is NaN, and +0 is not -0
ObjectIs(x, y) == x = y

\* Math.min, Math.max: NaN when either is NaN, and -0 below +0
RMin(x, y) ==
  IF isNaN(x) \/ isNaN(y) THEN NaN
  ELSE IF RCmp(x, y) < 0 THEN x
  ELSE IF RCmp(x, y) > 0 THEN y
  ELSE IF x.neg THEN x ELSE y

RMax(x, y) ==
  IF isNaN(x) \/ isNaN(y) THEN NaN
  ELSE IF RCmp(x, y) > 0 THEN x
  ELSE IF RCmp(x, y) < 0 THEN y
  ELSE IF x.neg THEN y ELSE x

\* Math.floor
RFloor(x) == IF isFinite(x) THEN XFloor(x) ELSE x

\* Math.ceil
RCeil(x) == RNeg(RFloor(RNeg(x)))

\* Math.trunc
RTrunc(x) == IF x.neg THEN RCeil(x) ELSE RFloor(x)

\* floor(x + 1/2) on the exact sum, a zero result with the sign of x
RoundedHalfUp(x, f) == IF f.num = <<>> THEN Finite(x.neg, <<>>, 0) ELSE f

\* Math.round: the nearest integer, a tie going up
RRound(x) == IF isFinite(x) THEN RoundedHalfUp(x, XFloor(XAdd(x, XHalf))) ELSE x

\* x is a whole number
RIsInt(x) == isFinite(x) /\ x.exp >= 0

\* a whole number of small magnitude as an integer
RToInt(x) ==
  IF x.neg THEN -BToNat(BShl(x.num, x.exp)) ELSE BToNat(BShl(x.num, x.exp))

(* ------------------------------- Math.sqrt ----------------------------- *)
\* floor(sqrt(n)) by Newton's iteration from an estimate x at or above it
RECURSIVE BSqrtFrom(_, _)
BSqrtFrom(n, x) ==
  The({IF BCmp(y, x) >= 0 THEN x ELSE BSqrtFrom(n, y) :
         y \in {BShr(BAdd(x, BDiv(n, x)), 1)}})

BSqrt(n) == IF n = <<>> THEN <<>> ELSE BSqrtFrom(n, BShl(BOne, (BBitLen(n) + 1) \div 2))

\* the root m of n * 2^e (e even) as 2m, plus 1 when the root is not exact
SqrtOf(n, e, m) ==
  Dbl(XNorm(FALSE, IF BMul(m, m) = n THEN BShl(m, 1) ELSE BAdd(BShl(m, 1), BOne),
            e \div 2 - 1))

\* the root of num * 2^exp from num shifted left by s, to 55 bits or more
SqrtShifted(num, exp, s) ==
  The({SqrtOf(n, exp - s - ((exp - s) % 2), BSqrt(n)) : n \in {BShl(num, s + ((exp - s) % 2))}})

\* Math.sqrt: the double nearest to the root
RSqrt(x) ==
  IF isNaN(x) \/ isZero(x) THEN x
  ELSE IF x.neg THEN NaN
  ELSE IF ~isFinite(x) THEN x
  ELSE SqrtShifted(x.num, x.exp, Max2(0, 2 * MantissaBits + 4 - BBitLen(x.num)))

(* ------------------------------- Math.pow ------------------------------ *)
\* Math.pow is the engine's ieee754::pow, a port of the pow of fdlibm
\* (e_pow.c) that groups one division differently (PowExpRatio). Its result
\* is close to the power but is not always the nearest double (Math.pow(1.1, 4)
\* is 1.4641000000000006), so it is followed operation by operation:
\* log2(x) as t1 + t2, y * log2(x) as p_h + p_l, then 2^(p_h + p_l).
\* The high word of a double is its sign, its exponent and the top 20 bits
\* of its fraction; the low word is the other 32 bits of the fraction.

\* The routine is one recursive operator with the four operations it is made
\* of: Flop(op, x, y) is x op y for op "add", "sub", "mul" and "div", the
\* routine itself for op "cases", and Math.pow(x, y) for op "pow".
RECURSIVE Flop(_, _, _)
FAdd(x, y) == Flop("add", x, y)
FSub(x, y) == Flop("sub", x, y)
FMul(x, y) == Flop("mul", x, y)
FDiv(x, y) == Flop("div", x, y)

\* floor(|x| / 2^e) for x finite
XUnits(x, e) == IF x.exp >= e THEN BShl(x.num, x.exp - e) ELSE BShr(x.num, e - x.exp)

\* the exponent of the lowest bit of the high word
HighUnit(x) == Max2(XTop(x) - 21, -1042)

\* the high word of |x|
HiWord(x) ==
  IF ~isFinite(x) THEN \h7FF00000
  ELSE IF x.num = <<>> THEN 0
  ELSE IF XTop(x) >= -1021
  THEN (XTop(x) + 1021) * \h100000 + BToNat(XUnits(x, XTop(x) - 21))
  ELSE BToNat(XUnits(x, -1042))

\* x with its low word cleared
HighPart(x) ==
  IF ~isFinite(x) \/ x.num = <<>> \/ x.exp >= HighUnit(x) THEN x
  ELSE XNorm(x.neg, XUnits(x, HighUnit(x)), HighUnit(x))

\* the double of a high word and the two halves of a low word
WordsOf(neg, e, f, lo) ==
  IF e = 0 THEN XNorm(neg, BAdd(BShl(BFromNat(f), 32), lo), -1074)
  ELSE XNorm(neg, BAdd(BShl(BFromNat(\h100000 + f), 32), lo), e - 1075)

FromWords(neg, hi, lo1, lo0) ==
  WordsOf(neg, (hi \div \h100000), (hi % \h100000), BAdd(BShl(BFromNat(lo1), 16), BFromNat(lo0)))

\* the positive double of a high word, its low word 0
FromHi(hi) == FromWords(FALSE, hi, 0, 0)

\* the constants of e_pow.c
dp_h1 == FromWords(FALSE, \h3FE2B803, \h4000, \h0000)   \* dp_h[1] = 5.84962487220764160156e-01
dp_l1 == FromWords(FALSE, \h3E4CFDEB, \h43CF, \hD006)   \* dp_l[1] = 1.35003920212974897128e-08
L1 == FromWords(FALSE, \h3FE33333, \h3333, \h3303)   \* 5.99999999999994648725e-01
L2 == FromWords(FALSE, \h3FDB6DB6, \hDB6F, \hABFF)   \* 4.28571428578550184252e-01
L3 == FromWords(FALSE, \h3FD55555, \h518F, \h264D)   \* 3.33333329818377432918e-01
L4 == FromWords(FALSE, \h3FD17460, \hA91D, \h4101)   \* 2.72728123808534006489e-01
L5 == FromWords(FALSE, \h3FCD864A, \h93C9, \hDB65)   \* 2.30660745775561754067e-01
L6 == FromWords(FALSE, \h3FCA7E28, \h4A45, \h4EEF)   \* 2.06975017800338417784e-01
P1 == FromWords(FALSE, \h3FC55555, \h5555, \h553E)   \* 1.66666666666666019037e-01
P2 == FromWords(TRUE, \h3F66C16C, \h16BE, \hBD93)   \* -2.77777777770155933842e-03
P3 == FromWords(FALSE, \h3F11566A, \hAF25, \hDE2C)   \* 6.61375632143793436117e-05
P4 == FromWords(TRUE, \h3EBBBD41, \hC5D2, \h6BF1)   \* -1.65339022054652515390e-06
P5 == FromWords(FALSE, \h3E663769, \h72BE, \hA4D0)   \* 4.13813679705723846039e-08
lg2 == FromWords(FALSE, \h3FE62E42, \hFEFA, \h39EF)   \* 6.93147180559945286227e-01
lg2_h == FromWords(FALSE, \h3FE62E43, \h0000, \h0000)   \* 6.93147182464599609375e-01
lg2_l == FromWords(TRUE, \h3E205C61, \h0CA8, \h6C39)   \* -1.90465429995776804525e-09
ovt == FromWords(FALSE, \h3C971547, \h652B, \h82FE)   \* 8.0085662595372944372e-17
cp == FromWords(FALSE, \h3FEEC709, \hDC3A, \h03FD)   \* 9.61796693925975554329e-01
cp_h == FromWords(FALSE, \h3FEEC709, \hE000, \h0000)   \* 9.61796700954437255859e-01
cp_l == FromWords(TRUE, \h3E3E2FE0, \h145B, \h01F5)   \* -7.02846165095275826516e-09
ivln2 == FromWords(FALSE, \h3FF71547, \h652B, \h82FE)   \* 1.44269504088896338700e+00
ivln2_h == FromWords(FALSE, \h3FF71547, \h6000, \h0000)   \* 1.44269502162933349609e+00
ivln2_l == FromWords(FALSE, \h3E54AE0B, \hF85D, \hDF44)   \* 1.92596299112661746887e-08
third == FromWords(FALSE, \h3FD55555, \h5555, \h5555)   \* 0.3333333333333333333333

bp(k) == IF k = 0 THEN ROne ELSE FromHi(\h3FF80000)
dp_h(k) == IF k = 0 THEN RZero ELSE dp_h1
dp_l(k) == IF k = 0 THEN RZero ELSE dp_l1

\* s * huge * huge and s * tiny * tiny
PowOverflow(neg) == Infinity(neg)
PowUnderflow(neg) == Finite(neg, <<>>, 0)

(* log2(ax) = n + dp_h[k] + (ss + ...) * 2 / (3 log 2) for ax scaled into
   [sqrt(3)/2, sqrt(3)), ss = (ax - bp[k]) / (ax + bp[k]) *)
\* t1 = (((z_h + z_l) + dp_h[k]) + t) with the low word cleared, and
\* t2 = z_l - (((t1 - t) - dp_h[k]) - z_h)
PowLogSum(k, t, z_h, z_l, t1) ==
  [t1 |-> t1, t2 |-> FSub(z_l, FSub(FSub(FSub(t1, t), dp_h(k)), z_h))]

PowLogTail(k, t, z_h, z_l) ==
  The({PowLogSum(k, t, z_h, z_l, t1) :
         t1 \in {HighPart(FAdd(FAdd(FAdd(z_h, z_l), dp_h(k)), t))}})

\* p_l = v - (p_h - u); z_h = cp_h * p_h; z_l = cp_l * p_h + p_l * cp + dp_l[k]
PowLogScaled(k, n, u, v, p_h) ==
  The({PowLogTail(k, RInt(n), z_h, z_l) :
         z_h \in {FMul(cp_h, p_h)},
         z_l \in {FAdd(FAdd(FMul(cp_l, p_h), FMul(FSub(v, FSub(p_h, u)), cp)), dp_l(k))}})

\* p_h = u + v with the low word cleared
PowLogHigh(k, n, u, v) ==
  The({PowLogScaled(k, n, u, v, p_h) : p_h \in {HighPart(FAdd(u, v))}})

\* t_l = r - ((t_h - 3.0) - s2); u = s_h * t_h; v = s_l * t_h + t_l * ss
PowLogProduct(k, n, ss, s_h, s_l, r, s2, t_h) ==
  The({PowLogHigh(k, n, u, v) :
         u \in {FMul(s_h, t_h)},
         v \in {FAdd(FMul(s_l, t_h),
                     FMul(FSub(r, FSub(FSub(t_h, RInt(3)), s2)), ss))}})

\* t_h = 3.0 + s2 + r with the low word cleared
PowLogThree(k, n, ss, s_h, s_l, r, s2) ==
  The({PowLogProduct(k, n, ss, s_h, s_l, r, s2, t_h) :
         t_h \in {HighPart(FAdd(FAdd(RInt(3), s2), r))}})

\* s2 * s2 * (L1 + s2 * (L2 + s2 * (L3 + s2 * (L4 + s2 * (L5 + s2 * L6)))))
PowLogPoly(s2) ==
  FMul(FMul(s2, s2),
       FAdd(L1, FMul(s2, FAdd(L2, FMul(s2, FAdd(L3, FMul(s2,
         FAdd(L4, FMul(s2, FAdd(L5, FMul(s2, L6)))))))))))

\* r = poly + s_l * (s_h + ss); s2 = s_h * s_h
PowLogSeries(k, n, ss, s_h, s_l, s2) ==
  The({PowLogThree(k, n, ss, s_h, s_l, r, sh2) :
         r \in {FAdd(PowLogPoly(s2), FMul(s_l, FAdd(s_h, ss)))},
         sh2 \in {FMul(s_h, s_h)}})

\* s_l = v * ((u - s_h * t_h) - s_h * t_l); s2 = ss * ss
PowLogLow(k, n, u, v, ss, t_h, s_h, t_l) ==
  The({PowLogSeries(k, n, ss, s_h, s_l, s2) :
         s_l \in {FMul(v, FSub(FSub(u, FMul(s_h, t_h)), FMul(s_h, t_l)))},
         s2 \in {FMul(ss, ss)}})

\* s_h = ss with the low word cleared; t_l = ax - (t_h - bp[k])
PowLogSplit(ax, k, n, u, v, ss, t_h) ==
  The({PowLogLow(k, n, u, v, ss, t_h, s_h, t_l) :
         s_h \in {HighPart(ss)},
         t_l \in {FSub(ax, FSub(t_h, bp(k)))}})

\* ss = u * v; t_h = ax + bp[k] to the high word:
\* __HI(t_h) = ((ix >> 1) | 0x20000000) + 0x00080000 + (k << 18)
PowLogRatio(ax, k, n, ix, u, v) ==
  The({PowLogSplit(ax, k, n, u, v, ss, t_h) :
         ss \in {FMul(u, v)},
         t_h \in {FromHi((ix \div 2) + \h20000000 + \h80000 + (k * \h40000))}})

\* u = ax - bp[k]; v = one / (ax + bp[k])
PowLogAt(ax, k, n, ix) ==
  The({PowLogRatio(ax, k, n, ix, u, v) :
         u \in {FSub(ax, bp(k))},
         v \in {FDiv(ROne, FAdd(ax, bp(k)))}})

\* the interval of ax in [1, 2) by the top 20 bits j of its fraction:
\* below sqrt(3/2), below sqrt(3), or halved into [sqrt(3)/2, 1)
PowLogInterval(ax, n, j) ==
  PowLogAt(IF j < \hBB67A THEN ax ELSE [ax EXCEPT !.exp = @ - 1],
           IF j <= \h3988E \/ j >= \hBB67A THEN 0 ELSE 1,
           IF j < \hBB67A THEN n ELSE n + 1,
           IF j < \hBB67A THEN \h3FF00000 + j ELSE \h3FE00000 + j)

PowLogNormal(ax, n) == PowLogInterval(ax, n, HiWord(ax) - \h3FF00000)

\* log2(ax) as t1 + t2, for ax > 0 finite: ax = 2^n * (ax scaled into [1, 2))
PowLog(ax) == PowLogNormal([ax EXCEPT !.exp = @ - (XTop(ax) - 1)], XTop(ax) - 1)

(* log2(ax) for |y| above 2^31 and ax within 2^-20 of 1:
   log(ax) by t - t^2/2 + t^3/3 - t^4/4 with t = ax - 1 *)
PowNearOneSum(u, v, t1) == [t1 |-> t1, t2 |-> FSub(v, FSub(t1, u))]

PowNearOneSplit(u, v) == The({PowNearOneSum(u, v, t1) : t1 \in {HighPart(FAdd(u, v))}})

\* w = (t * t) * (0.5 - t * (0.333... - t * 0.25)); u = ivln2_h * t;
\* v = t * ivln2_l - w * ivln2
PowNearOneOf(t) ==
  The({PowNearOneSplit(u, v) :
         u \in {FMul(ivln2_h, t)},
         v \in {FSub(FMul(t, ivln2_l),
                     FMul(FMul(FMul(t, t),
                               FSub(RHalf, FMul(t, FSub(third, FMul(t, FromHi(\h3FD00000)))))),
                          ivln2))}})

PowNearOne(ax) == The({PowNearOneOf(t) : t \in {FSub(ax, ROne)}})

(* 2^(p_h + p_l) *)
\* z = one - (r - z), then the exponent n added: scalbn(z, n)
PowExpScale(neg, n, z) == Dbl(XMul([z EXCEPT !.neg = neg], XPow2(n)))

\* t1 = z - t * (P1 + t * (P2 + t * (P3 + t * (P4 + t * P5))))
PowExpPoly(z, t) ==
  FSub(z, FMul(t, FAdd(P1, FMul(t, FAdd(P2, FMul(t, FAdd(P3, FMul(t,
    FAdd(P4, FMul(t, P5))))))))))

\* r = (z * t1) / ((t1 - two) - (w + z * w)); z = one - (r - z)
\* (the engine's grouping; e_pow.c has (z * t1) / (t1 - two) - (w + z * w))
PowExpRatio(neg, n, z, w, t1) ==
  The({PowExpScale(neg, n, FSub(ROne, FSub(r, z))) :
         r \in {FDiv(FMul(z, t1), FSub(FSub(t1, RInt(2)), FAdd(w, FMul(z, w))))}})

\* w = v - (z - u); t = z * z
PowExpSeries(neg, n, u, v, z) ==
  The({PowExpRatio(neg, n, z, w, t1) :
         w \in {FSub(v, FSub(z, u))},
         t1 \in {PowExpPoly(z, FMul(z, z))}})

\* u = t * lg2_h; v = (p_l - (t - p_h)) * lg2 + t * lg2_l; z = u + v
PowExpLn(neg, n, u, v) == The({PowExpSeries(neg, n, u, v, z) : z \in {FAdd(u, v)}})

PowExpSplit(neg, n, p_l, p_h, t) ==
  The({PowExpLn(neg, n, u, v) :
         u \in {FMul(t, lg2_h)},
         v \in {FAdd(FMul(FSub(p_l, FSub(t, p_h)), lg2), FMul(t, lg2_l))}})

\* t = p_l + p_h with the low word cleared
PowExpFraction(neg, n, p_l, p_h) ==
  The({PowExpSplit(neg, n, p_l, p_h, t) : t \in {HighPart(FAdd(p_l, p_h))}})

\* |z| > 0.5: n = [z + 0.5] and p_h -= n, from the high word nw of |z| + 0.5
\* and its exponent k
PowExpWhole(zneg, p_h, nw, k) ==
  The({[n |-> IF zneg THEN -n ELSE n, p_h |-> FSub(p_h, t)] :
         n \in {((nw % \h100000) + \h100000) \div (2^(20 - k))},
         t \in {[FromHi(nw - (nw % (2^(20 - k)))) EXCEPT !.neg = zneg]}})

PowExpRounded(zneg, p_h, nw) == PowExpWhole(zneg, p_h, nw, (nw \div \h100000) - \h3FF)

\* i is the high word of |z|, z = p_l + p_h; for |z| <= 0.5, n = 0 and p_h
\* is left as it is
PowExpReduce(neg, zneg, p_l, p_h, i) ==
  The({PowExpFraction(neg, part.n, p_l, part.p_h) :
         part \in {IF i > \h3FE00000
                   THEN PowExpRounded(zneg, p_h,
                          i + (\h100000 \div (2^((i \div \h100000) - \h3FF + 1))))
                   ELSE [n |-> 0, p_h |-> p_h]}})

\* z >= 1024 overflows and z <= -1075 underflows, but for a z of exactly
\* 1024 or -1075 that p_l brings back within range
PowExpRange(neg, p_l, p_h, z, i) ==
  IF /\ ~z.neg /\ i >= \h40900000
     /\ (z # RInt(1024) \/ RGt(FAdd(p_l, ovt), FSub(z, p_h)))
  THEN PowOverflow(neg)
  ELSE IF /\ i >= \h4090CC00
          /\ (z # RInt(-1075) \/ RLe(p_l, FSub(z, p_h)))
  THEN PowUnderflow(neg)
  ELSE PowExpReduce(neg, z.neg, p_l, p_h, i)

PowExpSum(neg, p_l, p_h) ==
  The({PowExpRange(neg, p_l, p_h, z, HiWord(z)) : z \in {FAdd(p_l, p_h)}})

\* y1 = y with the low word cleared; p_l = (y - y1) * t1 + y * t2; p_h = y1 * t1
PowExpOf(neg, y, y1, log) ==
  The({PowExpSum(neg, p_l, p_h) :
         p_l \in {FAdd(FMul(FSub(y, y1), log.t1), FMul(y, log.t2))},
         p_h \in {FMul(y1, log.t1)}})

PowExp(neg, y, log) == PowExpOf(neg, y, HighPart(y), log)

\* |y| between 2^31 and 2^64 and ax within 2^-20 of 1
PowNear(iy, ix) == iy <= \h43F00000 /\ ix >= \h3FEFFFFF /\ ix <= \h3FF00000

\* |y| above 2^31 otherwise, by the high words iy of |y| and ix of ax
PowHuge(neg, ax, y, iy, ix) ==
  IF iy > \h43F00000
  THEN (IF (ix <= \h3FEFFFFF) = y.neg THEN PowOverflow(FALSE) ELSE PowUnderflow(FALSE))
  ELSE IF ix < \h3FEFFFFF
  THEN (IF y.neg THEN PowOverflow(neg) ELSE PowUnderflow(neg))
  ELSE IF y.neg THEN PowUnderflow(neg) ELSE PowOverflow(neg)

\* ax^y for ax > 0 and y # 0 finite, with the sign `neg`
PowPositive(neg, ax, y) ==
  IF HiWord(y) > \h41E00000 /\ ~PowNear(HiWord(y), HiWord(ax))
  THEN PowHuge(neg, ax, y, HiWord(y), HiWord(ax))
  ELSE The({PowExp(neg, y, log) :
              log \in {IF HiWord(y) > \h41E00000 THEN PowNearOne(ax) ELSE PowLog(ax)}})

\* y is an odd whole number
RIsOdd(y) == isFinite(y) /\ y.exp = 0 /\ y.num # <<>>

\* x^y for y an infinity: by |x| against 1
PowToInfinity(x, y) ==
  IF isFinite(x) /\ XCmp(XAbs(x), XOne) = 0 THEN NaN
  ELSE IF (~isFinite(x) \/ XCmp(XAbs(x), XOne) > 0) = ~y.neg THEN Infinity(FALSE)
  ELSE RZero

\* x^y for x a zero, an infinity, 1 or -1: z = |x| or 1 / |x|, negated for
\* x < 0 and y odd, and (-1)^y is NaN for y not whole
PowOfExtreme(x, y, z) ==
  IF ~x.neg THEN z
  ELSE IF isFinite(x) /\ x.num # <<>> /\ y.exp < 0 THEN NaN
  ELSE IF RIsOdd(y) THEN RNeg(z)
  ELSE z

\* Math.pow(x, y) by its cases
powCases(x, y) ==
  IF isZero(y) THEN ROne
  ELSE IF isNaN(x) \/ isNaN(y) THEN NaN
  ELSE IF ~isFinite(y) THEN PowToInfinity(x, y)
  ELSE IF y = ROne THEN x
  ELSE IF y = RInt(-1) THEN FDiv(ROne, x)
  ELSE IF y = RInt(2) THEN FMul(x, x)
  ELSE IF y = RHalf /\ ~x.neg THEN RSqrt(x)
  ELSE IF ~isFinite(x) \/ isZero(x) \/ XAbs(x) = XOne
  THEN PowOfExtreme(x, y, IF y.neg THEN FDiv(ROne, RAbs(x)) ELSE RAbs(x))
  ELSE IF x.neg /\ y.exp < 0 THEN NaN
  ELSE PowPositive(x.neg /\ RIsOdd(y), XAbs(x), y)

\* the powers a drawdown asks for month after month, (1 + cpiPA / 12)^k at the
\* inflation rates of the modelled inputs (6%, -4.6875% and the 5% of the
\* runtime test T3), are computed once
monthlyFactorOf(annual) == RAdd(ROne, RDiv(annual, RInt(12)))
PowArgs ==
  [x : {monthlyFactorOf(R(6, 100))}, y : {RInt(k) : k \in -12..43}]
    \cup [x : {monthlyFactorOf(R(-3, 64))}, y : {RInt(k) : k \in 3..43}]
    \cup [x : {monthlyFactorOf(R(5, 100))}, y : {RInt(k) : k \in 3..13}]
PowKnown == {[of |-> a, is |-> Flop("cases", a.x, a.y)] : a \in PowArgs}
powAt(a) ==
  The({IF known = {} THEN Flop("cases", a.x, a.y) ELSE The(known).is :
         known \in {{k \in PowKnown : k.of = a}}})

Flop(op, x, y) ==
  CASE op = "add" -> RAdd(x, y)
    [] op = "sub" -> RSub(x, y)
    [] op = "mul" -> RMul(x, y)
    [] op = "div" -> RDiv(x, y)
    [] op = "cases" -> powCases(x, y)
    [] op = "pow" -> powAt([x |-> x, y |-> y])

\* Math.pow(x, y)
pow(x, y) == Flop("pow", x, y)

(* ------------------------------ accumulate ----------------------------- *)
\* A call of accumulate is a frame: its arguments, its locals and its
\* position (pc = "loop" at the loop test, "done" after the return).

\* a horizon rounded up instead of to the nearest month
accMonthsCeil(args) == RMax(RZero, RCeil(RMul(args.years, RInt(12))))

\* const months = Math.max(0, Math.round(years * 12))
accMonths(args) == RMax(RZero, RRound(RMul(args.years, RInt(12))))

\* the month's growth applied with the wrong sign
growSignSlip(bal, mContr, employer, r) ==
  RMul(RAdd(RAdd(bal, mContr), employer), RSub(ROne, r))

\* bal = (bal + mContr + employer) * (1 + r)
grow(bal, mContr, employer, r) ==
  RMul(RAdd(RAdd(bal, mContr), employer), RAdd(ROne, r))

accumulateEnter(args) ==
  [pc |-> "loop", args |-> args,
   months |-> accMonths(args),
   bal |-> args.startBalance,
   mContr |-> args.monthlyStart,
   m |-> 1,
   perYear |-> <<>>]

\* the contribution escalated at every month
escalatedMonthly(f) ==
  IF f.m > 1 THEN RMul(f.mContr, RAdd(ROne, f.args.escalationPA)) ELSE f.mContr

\* if (m > 1 && (m - 1) % 12 === 0) mContr *= 1 + escalationPA
escalated(f) ==
  IF f.m > 1 /\ (f.m - 1) % 12 = 0
  THEN RMul(f.mContr, RAdd(ROne, f.args.escalationPA))
  ELSE f.mContr

\* the balance recorded at every month
accumulateRecordAll(f, mContr, bal) ==
  [f EXCEPT !.mContr = mContr,
            !.bal = bal,
            !.perYear = Append(f.perYear, bal),
            !.m = f.m + 1]

\* if (m % 12 === 0) perYear.push(bal), and m++
accumulateRecord(f, mContr, bal) ==
  [f EXCEPT !.mContr = mContr,
            !.bal = bal,
            !.perYear = IF f.m % 12 = 0 THEN Append(f.perYear, bal) ELSE f.perYear,
            !.m = f.m + 1]

\* the employer's match left out of the deposit
accumulateDepositUnmatched(f, mContr) ==
  accumulateRecord(f, mContr,
                   grow(f.bal, mContr, RZero, RDiv(f.args.growthPA, RInt(12))))

\* const employer = employerMatchPct * mContr, r = growthPA / 12, and the
\* month's growth
accumulateDeposit(f, mContr) ==
  accumulateRecord(f, mContr,
                   grow(f.bal, mContr, RMul(f.args.employerMatchPct, mContr),
                        RDiv(f.args.growthPA, RInt(12))))

\* one pass of `for (let m = 1; m <= months; m++)`
accumulatePass(f) == accumulateDeposit(f, escalated(f))

\* return { fv: bal, series: perYear }
accumulateReturn(f) == [f EXCEPT !.pc = "done"]

\* the loop test m <= months, then a pass or the return
accumulateStep(f) ==
  IF RLe(RInt(f.m), f.months) THEN accumulatePass(f) ELSE accumulateReturn(f)

RECURSIVE accumulateRun(_)
accumulateRun(f) == IF f.pc = "done" THEN f ELSE accumulateRun(accumulateStep(f))

\* accumulate(args) as a function: { fv: bal, series: perYear }
accumulate(args) ==
  LET f == accumulateRun(accumulateEnter(args))
  IN  [fv |-> f.bal, series |-> f.perYear]

(* --------------------------- simulateDrawdown -------------------------- *)
\* const toPV = (nominal, years, cpi) => nominal / Math.pow(1 + cpi, Math.max(0, years))
toPV(nominal, years, cpi) ==
  RDiv(nominal, pow(RAdd(ROne, cpi), RMax(RZero, years)))

\* the whole need withdrawn whatever the balance
withdrawalFull(bal, incomeNominal) == incomeNominal

\* const out = Math.min(bal, incomeNominal)
withdrawal(bal, incomeNominal) == RMin(bal, incomeNominal)

\* the withdrawal paid out but not deducted
balanceAfterKept(bal, out) == bal

\* bal -= out
balanceAfter(bal, out) == RSub(bal, out)

\* the run-out age overwritten at every exhausted month
nextRunOutAgeLast(runOutAge, bal, age) ==
  IF RLe(bal, RZero) THEN <<age>> ELSE runOutAge

\* the run-out test made strict
nextRunOutAgeStrict(runOutAge, bal, age) ==
  IF runOutAge = NULL /\ RLt(bal, RZero) THEN <<age>> ELSE runOutAge

\* if (runOutAge === null && bal <= 0) runOutAge = age
\* (runOutAge is NULL or the one-element sequence <<age>>)
nextRunOutAge(runOutAge, bal, age) ==
  IF runOutAge = NULL /\ RLe(bal, RZero) THEN <<age>> ELSE runOutAge

simulateDrawdownEnter(args) ==
  [pc |-> "loop", args |-> args,
   monthsToEnd |-> RMax(RZero, RRound(RMul(RSub(args.endAge, args.retireAge), RInt(12)))),
   bal |-> RMax(RZero, RSub(args.startFV, args.capitalNeedsAtRet)),
   pts |-> <<>>,
   runOutAge |-> NULL,
   m |-> 0,
   grown |-> RZero, incomeNominal |-> RZero, out |-> RZero,
   pvAtStart |-> NULL,
   sumOut |-> XZero]

\* const age = retireAge + m / 12
ageAt(f) == RAdd(f.args.retireAge, RDiv(RInt(f.m), RInt(12)))

\* const monthsFromToday = Math.round((retireAge - startAge) * 12) + m
monthsFromToday(f) ==
  RAdd(RRound(RMul(RSub(f.args.retireAge, f.args.startAge), RInt(12))), RInt(f.m))

\* const incomeNominal =
\*   monthlyIncomeTodayR * Math.pow(1 + cpiM, Math.max(0, monthsFromToday))
incomeNominalAt(f) ==
  RMul(f.args.monthlyIncomeTodayR,
       pow(RAdd(ROne, RDiv(f.args.cpiPA, RInt(12))),
                RMax(RZero, monthsFromToday(f))))

\* bal *= 1 + growthM
grownBalance(f) == RMul(f.bal, RAdd(ROne, RDiv(f.args.postRetGrowthPA, RInt(12))))

\* the total withdrawn so far, exactly (a history value)
totalWithdrawn(sum, out) ==
  IF isFinite(sum) /\ isFinite(out) THEN XAdd(sum, out) ELSE NaN

\* pts.push({ age, balance: bal }), the run-out test, and m++; grown is the
\* balance after growth
drawdownRecord(f, age, grown, incomeNominal, out, bal) ==
  [f EXCEPT !.grown = grown,
            !.incomeNominal = incomeNominal,
            !.out = out,
            !.bal = bal,
            !.pts = Append(f.pts, [age |-> age, balance |-> bal]),
            !.runOutAge = nextRunOutAge(f.runOutAge, bal, age),
            !.sumOut = totalWithdrawn(f.sumOut, out),
            !.m = f.m + 1]

drawdownSettle(f, age, grown, incomeNominal, out) ==
  drawdownRecord(f, age, grown, incomeNominal, out, balanceAfter(grown, out))

drawdownWithdraw(f, age, grown, incomeNominal) ==
  drawdownSettle(f, age, grown, incomeNominal, withdrawal(grown, incomeNominal))

\* one pass of `for (let m = 0; m <= monthsToEnd; m++)`
simulateDrawdownPass(f) ==
  drawdownWithdraw(f, ageAt(f), grownBalance(f), incomeNominalAt(f))

\* const pvAtStart = toPV(bal, endAge - startAge, cpiPA), and the return
simulateDrawdownReturn(f) ==
  [f EXCEPT !.pc = "done",
            !.pvAtStart = toPV(f.bal, RSub(f.args.endAge, f.args.startAge), f.args.cpiPA)]

\* the loop test m <= monthsToEnd, then a pass or the return
simulateDrawdownStep(f) ==
  IF RLe(RInt(f.m), f.monthsToEnd) THEN simulateDrawdownPass(f)
  ELSE simulateDrawdownReturn(f)

RECURSIVE simulateDrawdownRun(_)
simulateDrawdownRun(f) ==
  IF f.pc = "done" THEN f ELSE simulateDrawdownRun(simulateDrawdownStep(f))

\* return { points, endBalance: bal, pvAtStart, runOutAge } of a finished frame
drawdownReturned(f) ==
  [points |-> f.pts, endBalance |-> f.bal, pvAtStart |-> f.pvAtStart, runOutAge |-> f.runOutAge]

\* simulateDrawdown(args) as a function
simulateDrawdown(args) == drawdownReturned(simulateDrawdownRun(simulateDrawdownEnter(args)))

(* the copy of simulateDrawdown in part_002: the same text but for the two
   exponents, which are not clamped at 0 *)
\* const toPV = (nominal, years, cpi) => nominal / Math.pow(1 + cpi, years)
toPV_part002(nominal, years, cpi) ==
  RDiv(nominal, pow(RAdd(ROne, cpi), years))

\* const incomeNominal = monthlyIncomeTodayR * Math.pow(1 + cpiM, monthsFromToday)
incomeNominalAt_part002(f) ==
  RMul(f.args.monthlyIncomeTodayR,
       pow(RAdd(ROne, RDiv(f.args.cpiPA, RInt(12))), monthsFromToday(f)))

\* one pass of `for (let m = 0; m <= monthsToEnd; m++)`
simulateDrawdownPass_part002(f) ==
  drawdownWithdraw(f, ageAt(f), grownBalance(f), incomeNominalAt_part002(f))

\* const pvAtStart = toPV(bal, endAge - startAge, cpiPA), and the return
simulateDrawdownReturn_part002(f) ==
  [f EXCEPT !.pc = "done",
            !.pvAtStart = toPV_part002(f.bal, RSub(f.args.endAge, f.args.startAge),
                                       f.args.cpiPA)]

simulateDrawdownStep_part002(f) ==
  IF RLe(RInt(f.m), f.monthsToEnd) THEN simulateDrawdownPass_part002(f)
  ELSE simulateDrawdownReturn_part002(f)

RECURSIVE simulateDrawdownRun_part002(_)
simulateDrawdownRun_part002(f) ==
  IF f.pc = "done" THEN f
  ELSE simulateDrawdownRun_part002(simulateDrawdownStep_part002(f))

\* simulateDrawdown(args) of part_002 as a function
simulateDrawdown_part002(args) ==
  drawdownReturned(simulateDrawdownRun_part002(simulateDrawdownEnter(args)))

(* --------------------------- solveRecommended -------------------------- *)
\* const ok = (r) => r.runOutAge === null && r.endBalance >= 0
ok(r) == r.runOutAge = NULL /\ RGe(r.endBalance, RZero)

\* a retry budget that is too generous, a bisection that stops early
guardLimitLoose == 28 + 12
bisectStepsFew == 4 + 4

\* `guard++ < 28`, `i < 48`, `hi *= 1.5`
guardLimit == 28
bisectSteps == 48
expandFactor == R(3, 2)

\* the two bounds moved the wrong way round
narrowSwapped(lo, hi, mid, isOk) ==
  IF isOk THEN [lo |-> mid, hi |-> hi] ELSE [lo |-> lo, hi |-> mid]

\* if (ok(rm)) hi = mid; else lo = mid     (the new lo and hi)
narrow(lo, hi, mid, isOk) ==
  IF isOk THEN [lo |-> lo, hi |-> mid] ELSE [lo |-> mid, hi |-> hi]

\* The outcome function handed to the solver, as data.  "drawdown" is the
\* function of the runtime sanity test T3 (capital m * 12 handed to
\* simulateDrawdown); "target" reports the surplus of accumulate over a
\* target final value; the other kinds are step functions of the candidate,
\* monotone ("ge", "gt", "surplus", "always", "never") or not ("le", "band").
exhausted == [runOutAge |-> <<RInt(60)>>, endBalance |-> RZero]
survived(e) == [runOutAge |-> NULL, endBalance |-> e]

\* what ok reads of a result
outcome(d) == [runOutAge |-> d.runOutAge, endBalance |-> d.endBalance]

callFn(fn, m) ==
  CASE fn.kind = "drawdown" ->
         outcome(simulateDrawdown([fn.args EXCEPT !.startFV = RMul(m, RInt(12))]))
    [] fn.kind = "target" ->
         survived(RSub(accumulate([fn.args EXCEPT !.monthlyStart = m]).fv, fn.t))
    [] fn.kind = "ge" -> IF RGe(m, fn.t) THEN survived(RSub(m, fn.t)) ELSE exhausted
    [] fn.kind = "gt" -> IF RGt(m, fn.t) THEN survived(RSub(m, fn.t)) ELSE exhausted
    [] fn.kind = "surplus" -> survived(RSub(m, fn.t))
    [] fn.kind = "le" -> IF RLe(m, fn.t) THEN survived(RSub(fn.t, m)) ELSE exhausted
    [] fn.kind = "band" -> IF RGe(m, fn.t) /\ RLe(m, RMul(fn.t, RInt(2)))
                           THEN survived(RZero) ELSE exhausted
    [] fn.kind = "always" -> survived(m)
    [] fn.kind = "never" -> exhausted

\* entry: the parameters; nothing evaluated yet (evals counts the calls of fn)
solveRecommendedEnter(fn, lo, hi) ==
  [pc |-> "start", fn |-> fn, lo |-> lo, hi |-> hi, hi0 |-> hi,
   rHi |-> exhausted, guard |-> 0, i |-> 0, evals |-> 0, ret |-> NULL]

\* let rHi = fn(hi), guard = 0
solveStart(f) ==
  [f EXCEPT !.rHi = callFn(f.fn, f.hi), !.guard = 0, !.evals = f.evals + 1, !.pc = "expand"]

\* the body of `while (!ok(rHi) && guard++ < 28)` with the new upper bound
expandTo(f, hi) ==
  [f EXCEPT !.guard = f.guard + 1, !.hi = hi, !.rHi = callFn(f.fn, hi), !.evals = f.evals + 1]

\* { hi *= 1.5; rHi = fn(hi); }
solveExpand(f) == expandTo(f, RMul(f.hi, expandFactor))

\* the loop test fails: on an acceptable rHi guard++ is not evaluated, on a
\* spent budget it is
solveBracket(f) ==
  IF ok(f.rHi) THEN [f EXCEPT !.pc = "bisect"]
  ELSE [f EXCEPT !.guard = f.guard + 1, !.pc = "bisect"]

bisectTo(f, b) ==
  [f EXCEPT !.lo = b.lo, !.hi = b.hi, !.i = f.i + 1, !.evals = f.evals + 1]

\* hi = mid whatever fn reports
bisectAtUnchecked(f, mid) == bisectTo(f, narrow(f.lo, f.hi, mid, TRUE))

\* const rm = fn(mid); if (ok(rm)) hi = mid; else lo = mid
bisectAt(f, mid) == bisectTo(f, narrow(f.lo, f.hi, mid, ok(callFn(f.fn, mid))))

\* one pass of `for (let i = 0; i < 48; i++)`: const mid = (lo + hi) / 2
solveBisect(f) == bisectAt(f, RDiv(RAdd(f.lo, f.hi), RInt(2)))

\* return Math.round((lo + hi) / 2)
solveReturn(f) ==
  [f EXCEPT !.ret = <<RRound(RDiv(RAdd(f.lo, f.hi), RInt(2)))>>, !.pc = "done"]

(* ------------------------------- the model ----------------------------- *)
\* acc, dd and sol are the frames of one call of accumulate, simulateDrawdown
\* and solveRecommended; tv is one evaluation of the time-value formulas, plan
\* one evaluation of the retirement planner's results, inv the investment
\* calculator's component state, form the retirement planner's component
\* state and res one evaluation of the investment calculator's results and
\* chart. A frame with pc = "idle" is a call that is not made.
VARIABLES acc, dd, sol, tv, plan, inv, form, res
vars == <<acc, dd, sol, tv, plan, inv, form, res>>

idle == [pc |-> "idle"]

(* input domains *)
\* the longest horizons modelled, in months
AccMaxMonths == 25
DrawMaxMonths == 24

\* horizons: negative, zero, rounding to 0 and to 1 month, part of a year,
\* one year, and two years and a month (two escalations)
AccYears == {RInt(-1), RZero, R(1, 25), R(1, 24), R(1, 2), ROne, R(AccMaxMonths, 12)}

\* growth rates: -150% (below the -100% a rate assumption is meant to stay
\* above), -75%, 0, 9.375% a year; escalations of -50%, 0, 6.25% and 10%
AccGrowth == {R(-3, 2), R(-3, 4), RZero, R(3, 32)}
AccEscalation == {R(-1, 2), RZero, R(1, 16), R(1, 10)}

AccArgs ==
  [years : AccYears,
   startBalance : {RInt(-1000), RZero, RInt(1000)},
   monthlyStart : {RInt(-100), RZero, R(1, 10), RInt(100)},
   escalationPA : AccEscalation,
   growthPA : AccGrowth,
   employerMatchPct : {RZero, RHalf}]

\* ages are whole years but for the retirement age (the form of
\* src/src/RetirementCalculator.tsx truncates what is typed, safeParseNumber)
\* and rates are above -1 (spec, data model)
\* whole amounts under growth of -75%, 0, 1.17% and 9.375% and inflation of
\* -4.6875%, 0 and 6%; a negative income need and capital needs below and
\* above the capital; amounts with decimals (0.7, 1.2, 8400.7), at rates of 0;
\* today a year after the retirement, with the end before, at and after today
DrawArgs ==
  [startFV : {RZero, RInt(119999), RInt(500000)},
   startAge : {RInt(59), RInt(60)},
   retireAge : {RInt(60), R(121, 2)},
   endAge : {RInt(60), RInt(61), R(60 * 12 + DrawMaxMonths, 12)},
   postRetGrowthPA : {R(-3, 4), RZero, R(3, 256), R(3, 32)},
   cpiPA : {R(-3, 64), RZero, R(6, 100)},
   monthlyIncomeTodayR : {RZero, RInt(10000)},
   capitalNeedsAtRet : {RZero}]
    \cup
  [startFV : {RInt(120000), RInt(500000)},
   startAge : {RInt(60)},
   retireAge : {RInt(60)},
   endAge : {RInt(61)},
   postRetGrowthPA : {RZero, R(3, 32)},
   cpiPA : {RZero, R(6, 100)},
   monthlyIncomeTodayR : {RInt(-5000), RInt(10000)},
   capitalNeedsAtRet : {RZero, RInt(20000), RInt(600000)}]
    \cup
  [startFV : {R(7, 10), R(6, 5), R(84007, 10)},
   startAge : {RInt(60)},
   retireAge : {RInt(60)},
   endAge : {R(121, 2), R(60 * 12 + DrawMaxMonths, 12)},
   postRetGrowthPA : {RZero},
   cpiPA : {RZero},
   monthlyIncomeTodayR : {R(1, 10), R(12001, 10)},
   capitalNeedsAtRet : {RZero}]
    \cup
  [startFV : {RInt(500000)},
   startAge : {RInt(61)},
   retireAge : {RInt(60)},
   endAge : {RInt(60), RInt(61), R(60 * 12 + DrawMaxMonths, 12)},
   postRetGrowthPA : {RZero, R(3, 32)},
   cpiPA : {RZero, R(6, 100)},
   monthlyIncomeTodayR : {RZero, RInt(10000)},
   capitalNeedsAtRet : {RZero}]

(* accumulate, one loop pass per step *)
AccInit == /\ \E a \in AccArgs : acc = accumulateEnter(a)
           /\ dd = idle
           /\ sol = idle
           /\ tv = idle /\ plan = idle /\ inv = idle /\ form = idle /\ res = idle

AccLoop == /\ acc.pc = "loop"
           /\ RLe(RInt(acc.m), acc.months)
           /\ acc' = accumulatePass(acc)
           /\ UNCHANGED <<dd, sol, tv, plan, inv, form, res>>

AccReturn == /\ acc.pc = "loop"
             /\ ~RLe(RInt(acc.m), acc.months)
             /\ acc' = accumulateReturn(acc)
             /\ UNCHANGED <<dd, sol, tv, plan, inv, form, res>>

AccNext == AccLoop \/ AccReturn

SpecAcc == AccInit /\ [][AccNext]_vars

(* simulateDrawdown, one loop pass per step *)
DrawInit == /\ \E a \in DrawArgs : dd = simulateDrawdownEnter(a)
            /\ acc = idle
            /\ sol = idle
            /\ tv = idle /\ plan = idle /\ inv = idle /\ form = idle /\ res = idle

DrawLoop == /\ dd.pc = "loop"
            /\ RLe(RInt(dd.m), dd.monthsToEnd)
            /\ dd' = simulateDrawdownPass(dd)
            /\ UNCHANGED <<acc, sol, tv, plan, inv, form, res>>

DrawReturn == /\ dd.pc = "loop"
              /\ ~RLe(RInt(dd.m), dd.monthsToEnd)
              /\ dd' = simulateDrawdownReturn(dd)
              /\ UNCHANGED <<acc, sol, tv, plan, inv, form, res>>

DrawNext == DrawLoop \/ DrawReturn

SpecDraw == DrawInit /\ [][DrawNext]_vars

(* simulateDrawdown on inputs with a retirement or an end before today *)
\* today before, at and after the retirement at 60 or 60 1/2 and the end at
\* 60, 61 or 62; the form of part_002 keeps the decimals of an age (parseNum),
\* so today may fall at 59 1/2, a fractional number of years from the end
DrawCopyArgs ==
  [startFV : {RZero, RInt(500000)},
   startAge : {RInt(59), R(119, 2), RInt(60), RInt(61)},
   retireAge : {RInt(60), R(121, 2)},
   endAge : {RInt(60), RInt(61), R(60 * 12 + DrawMaxMonths, 12)},
   postRetGrowthPA : {RZero, R(3, 32)},
   cpiPA : {RInt(-12), RZero, R(6, 100)},
   monthlyIncomeTodayR : {RZero, RInt(10000)},
   capitalNeedsAtRet : {RZero}]

DrawCopyInit == /\ \E a \in DrawCopyArgs : dd = simulateDrawdownEnter(a)
                /\ acc = idle
                /\ sol = idle
                /\ tv = idle /\ plan = idle /\ inv = idle /\ form = idle /\ res = idle

SpecDrawCopies == DrawCopyInit /\ [][DrawNext]_vars

(* solveRecommended, one evaluation of fn per step *)
\* the initial upper bounds: 100000 (sanity test T3) and 1_000_000 (the app)
SolveHi == {RInt(100000), RInt(1000000)}

\* hi after k passes of `hi *= 1.5`
RECURSIVE expandedBy(_, _)
expandedBy(hi, k) == IF k = 0 THEN hi ELSE expandedBy(RMul(hi, expandFactor), k - 1)

\* the highest upper bound the expansion reaches from the app's 1_000_000
topOfExpansion == expandedBy(RInt(1000000), guardLimit)

\* thresholds: at 0, below 1, between whole units, well above both initial
\* bounds, just under an expanded bound (100000 * 1.5^7 = 1708593.75), and on
\* the last expansion of the larger bound
Thresholds ==
  {RZero, RHalf, R(5, 2), R(4500001, 3), R(17085937, 10), topOfExpansion}

MonotoneKinds == {"ge", "gt", "surplus"}

StepFns ==
  [kind : MonotoneKinds \cup {"le", "band"}, t : Thresholds, args : {NULL}]
    \cup [kind : {"always", "never"}, t : {RZero}, args : {NULL}]

\* the drawdown of the runtime test T3: 6% growth, 5% inflation
DrawFns ==
  [kind : {"drawdown"}, t : {RZero},
   args : [startFV : {RZero}, startAge : {RInt(60)}, retireAge : {RInt(60)},
           endAge : {RInt(61)}, postRetGrowthPA : {R(6, 100)}, cpiPA : {R(5, 100)},
           monthlyIncomeTodayR : {RInt(10000)}, capitalNeedsAtRet : {RZero}]]

\* flat-rate accumulations without escalation, solved for a target final value
TargetFns ==
  [kind : {"target"},
   t : {RInt(6), RInt(500), RInt(250000), RInt(20000000)},
   args : [years : {R(1, 12), ROne}, startBalance : {RZero, RInt(1000)},
           monthlyStart : {RZero}, escalationPA : {RZero},
           growthPA : {RZero, R(3, 32)}, employerMatchPct : {RZero}]]

\* the outcome functions by family
FnFamilies == {"step", "drawdown", "target"}
FnsOf(family) ==
  CASE family = "step" -> StepFns
    [] family = "drawdown" -> DrawFns
    [] family = "target" -> TargetFns

SolveInit == /\ \E family \in FnFamilies, hi \in SolveHi :
                  \E fn \in FnsOf(family) : sol = solveRecommendedEnter(fn, RZero, hi)
             /\ acc = idle
             /\ dd = idle
             /\ tv = idle /\ plan = idle /\ inv = idle /\ form = idle /\ res = idle

\* let rHi = fn(hi), guard = 0
SolveStart == /\ sol.pc = "start"
              /\ sol' = solveStart(sol)
              /\ UNCHANGED <<acc, dd, tv, plan, inv, form, res>>

\* the loop test succeeds: hi *= 1.5; rHi = fn(hi)
SolveExpand == /\ sol.pc = "expand"
               /\ ~ok(sol.rHi)
               /\ sol.guard < guardLimit
               /\ sol' = solveExpand(sol)
               /\ UNCHANGED <<acc, dd, tv, plan, inv, form, res>>

\* the loop test fails, on an acceptable rHi or on the spent retry budget
SolveBracket == /\ sol.pc = "expand"
                /\ ok(sol.rHi) \/ sol.guard >= guardLimit
                /\ sol' = solveBracket(sol)
                /\ UNCHANGED <<acc, dd, tv, plan, inv, form, res>>

SolveBisect == /\ sol.pc = "bisect"
               /\ sol.i < bisectSteps
               /\ sol' = solveBisect(sol)
               /\ UNCHANGED <<acc, dd, tv, plan, inv, form, res>>

SolveReturn == /\ sol.pc = "bisect"
               /\ sol.i >= bisectSteps
               /\ sol' = solveReturn(sol)
               /\ UNCHANGED <<acc, dd, tv, plan, inv, form, res>>

SolveNext == \/ SolveStart
             \/ SolveExpand
             \/ SolveBracket
             \/ SolveBisect
             \/ SolveReturn

SpecSolve == SolveInit /\ [][SolveNext]_vars

(* --------------------------- time-value formulas ----------------------- *)
\* the double nearest to n / 10^places, n a natural
DecimalOf(n, places) ==
  IF n = <<>> THEN RZero ELSE DblRatio(FALSE, n, BPow(BFromNat(10), places), 0)

\* the thresholds 1e-8 and 1e-10 under which two rates count as equal
rateEpsilon == DecimalOf(BOne, 8)
monthlyRateEpsilon == DecimalOf(BOne, 10)

\* the floor -0.99 of a rate
rateFloor == R(-99, 100)

\* function fvLump(pv, r, n) { return pv * Math.pow(1 + r, n); }
fvLump(pv, r, n) == RMul(pv, pow(RAdd(ROne, r), n))

\* the general branch of fvGrowingAnnuity:
\* top = (1+r)^n - (1+g)^n; fv = P0 * (top / (r - g)); return fv * (1 + r)
fvGrowingAnnuityGeneral(P0, r, g, n) ==
  RMul(RMul(P0, RDiv(RSub(pow(RAdd(ROne, r), n), pow(RAdd(ROne, g), n)),
                     RSub(r, g))),
       RAdd(ROne, r))

\* the special case without the number of payments
fvGrowingAnnuityOnce(P0, r, g, n) == RMul(P0, pow(RAdd(ROne, r), n))

\* the special-case branch: return P0 * n * Math.pow(1 + r, n)
fvGrowingAnnuityEqual(P0, r, g, n) == RMul(RMul(P0, n), pow(RAdd(ROne, r), n))

\* function fvGrowingAnnuity(P0, r, g, n), annual payments P0 growing at g
fvGrowingAnnuity(P0, r, g, n) ==
  IF RLe(n, RZero) THEN RZero
  ELSE IF RLt(RAbs(RSub(r, g)), rateEpsilon) THEN fvGrowingAnnuityEqual(P0, r, g, n)
  ELSE fvGrowingAnnuityGeneral(P0, r, g, n)

\* function realAnnuityFactor(d, L)
realAnnuityFactor(d, L) ==
  IF RLe(L, RZero) THEN RZero
  ELSE IF RLt(RAbs(d), rateEpsilon) THEN L
  ELSE RDiv(RSub(ROne, pow(RDiv(ROne, RAdd(ROne, d)), L)), d)

\* function fvLumpMonthly(pv, annualR, months): i = annualR / 12
fvLumpMonthly(pv, annualR, months) ==
  RMul(pv, pow(RAdd(ROne, RDiv(annualR, RInt(12))), months))

\* return timing === "begin" ? fv * (1 + i) : fv
annuityTimed(fv, i, timing) == IF timing = "begin" THEN RMul(fv, RAdd(ROne, i)) ELSE fv

\* const fv = P * ((Math.pow(1 + i, n) - 1) / i)
annuityAt(P, i, n) == RMul(P, RDiv(RSub(pow(RAdd(ROne, i), n), ROne), i))

\* function fvOrdinaryAnnuityMonthly(P, annualR, years, timing):
\* m = 12, i = r / m, n = years * m
fvOrdinaryAnnuityMonthly(P, annualR, years, timing) ==
  IF RLe(P, RZero) \/ RLe(years, RZero) THEN RZero
  ELSE annuityTimed(annuityAt(P, RDiv(annualR, RInt(12)), RMul(years, RInt(12))),
                    RDiv(annualR, RInt(12)), timing)

\* annualContrib * Math.pow(1 + annualR, growYears) of year t, with
\* annualContrib = P0Monthly * 12 * Math.pow(1 + annualG, t - 1) and
\* growYears = years - t + 1
escalatingYear(P0Monthly, annualR, annualG, years, t) ==
  RMul(RMul(RMul(P0Monthly, RInt(12)), pow(RAdd(ROne, annualG), RInt(t - 1))),
       pow(RAdd(ROne, annualR), RAdd(RSub(years, RInt(t)), ROne)))

\* for (let t = 1; t <= years; t++) total += ...
RECURSIVE escalatingTotal(_, _, _, _, _, _)
escalatingTotal(P0Monthly, annualR, annualG, years, t, total) ==
  IF ~RLe(RInt(t), years) THEN total
  ELSE escalatingTotal(P0Monthly, annualR, annualG, years, t + 1,
                       RAdd(total, escalatingYear(P0Monthly, annualR, annualG, years, t)))

\* function fvEscalatingAnnualContrib(P0Monthly, annualR, annualG, years)
fvEscalatingAnnualContrib(P0Monthly, annualR, annualG, years) ==
  IF RLe(P0Monthly, RZero) \/ RLe(years, RZero) THEN RZero
  ELSE escalatingTotal(P0Monthly, annualR, annualG, years, 1, RZero)

\* the general branch of fvGrowingAnnuityMonthly:
\* P0Monthly * ((Math.pow(1 + i, months) - Math.pow(1 + j, months)) / (i - j))
growingMonthlyGeneral(P0Monthly, i, j, months) ==
  RMul(P0Monthly, RDiv(RSub(pow(RAdd(ROne, i), months), pow(RAdd(ROne, j), months)),
                       RSub(i, j)))

\* the special-case branch: P0Monthly * months * Math.pow(1 + i, months)
growingMonthlyEqual(P0Monthly, i, months) ==
  RMul(RMul(P0Monthly, months), pow(RAdd(ROne, i), months))

\* the two branches on i = annualR / 12, j = annualG / 12
growingMonthlyAt(P0Monthly, i, j, months, timing) ==
  IF RLt(RAbs(RSub(i, j)), monthlyRateEpsilon)
  THEN annuityTimed(growingMonthlyEqual(P0Monthly, i, months), i, timing)
  ELSE annuityTimed(growingMonthlyGeneral(P0Monthly, i, j, months), i, timing)

\* function fvGrowingAnnuityMonthly(P0Monthly, annualR, annualG, months, timing)
fvGrowingAnnuityMonthly(P0Monthly, annualR, annualG, months, timing) ==
  IF RLe(months, RZero) \/ RLe(P0Monthly, RZero) THEN RZero
  ELSE growingMonthlyAt(P0Monthly, RDiv(annualR, RInt(12)), RDiv(annualG, RInt(12)),
                        months, timing)

(* ----------------------- retirement planner results -------------------- *)
\* One evaluation of the planner's `results`: the products are grown one by
\* one (pc = "products"), then the assets are set against the required
\* capital (pc = "funding").

\* x || fallback on a number: 0 and NaN are falsy
orElse(x, fallback) == IF isNaN(x) \/ isZero(x) THEN fallback ELSE x

\* x ?? fallback
orNullish(x, fallback) == IF x = NULL THEN fallback ELSE x[1]

\* const preR = Math.max(-0.99, inp.preReturnFallback)
preR(inp) == RMax(rateFloor, inp.preReturnFallback)

\* const postR = Math.max(-0.99, inp.postReturn)
postR(inp) == RMax(rateFloor, inp.postReturn)

\* const rNet = Math.max(-0.99, (p.nominalReturn || preR) - (p.annualFees || 0))
rNet(p, inp) ==
  RMax(rateFloor, RSub(orElse(p.nominalReturn, preR(inp)), orElse(p.annualFees, RZero)))

\* const fvBal = fvLump(p.currentBalance || 0, rNet, n)
fvBal(p, r, n) == fvLump(orElse(p.currentBalance, RZero), r, n)

\* const fvContrib = fvGrowingAnnuity((p.monthlyContribution || 0) * 12, rNet,
\*                                    p.annualContributionEscalation ?? inflation, n)
fvContrib(p, r, inflation, n) ==
  fvGrowingAnnuity(RMul(orElse(p.monthlyContribution, RZero), RInt(12)), r,
                   orNullish(p.annualContributionEscalation, inflation), n)

\* fvBal + fvContrib of one product
productValue(p, r, inflation, n) == RAdd(fvBal(p, r, n), fvContrib(p, r, inflation, n))

\* const yearsToRetire = Math.max(0, Math.round(inp.retireAge - (age || 0)))
yearsToRetire(inp) ==
  RMax(RZero, RRound(RSub(inp.retireAge, orElse(inp.age, RZero))))

\* const yearsInRetirement = Math.max(0, Math.round(inp.lifeExpectancy - inp.retireAge))
yearsInRetirement(inp) ==
  RMax(RZero, RRound(RSub(inp.lifeExpectancy, inp.retireAge)))

\* n = yearsToRetire, L = yearsInRetirement, let assetsNominal = 0
resultsEnter(inp) ==
  [pc |-> "products", inp |-> inp, n |-> yearsToRetire(inp),
   L |-> yearsInRetirement(inp), k |-> 1, rNet |-> NULL, assetsNominal |-> RZero]

\* assetsNominal += fvBal + fvContrib at the product's rate r
resultsGrow(f, p, r) ==
  [f EXCEPT !.rNet = <<r>>,
            !.assetsNominal = RAdd(f.assetsNominal, productValue(p, r, f.inp.inflation, f.n)),
            !.k = f.k + 1]

\* one pass of inp.products.forEach
resultsProduct(f) == resultsGrow(f, f.inp.products[f.k], rNet(f.inp.products[f.k], f.inp))

\* const assetsReal = assetsNominal / Math.pow(1 + inflation, n)
assetsReal(f) == RDiv(f.assetsNominal, pow(RAdd(ROne, f.inp.inflation), f.n))

\* const finalSalary = annualSalary0 * Math.pow(1 + inp.salaryGrowth, n)
finalSalary(inp, n) ==
  RMul(RMul(inp.monthlySalary, RInt(12)), pow(RAdd(ROne, inp.salaryGrowth), n))

\* the income target in today's money
targetAnnualToday(inp, n) ==
  IF inp.incomeMode = "replacement"
  THEN RDiv(RMul(finalSalary(inp, n), inp.targetReplacementRatio),
            pow(RAdd(ROne, inp.inflation), n))
  ELSE RMul(inp.targetMonthlyIncomeToday, RInt(12))

\* (1 + nominal) / (1 + inflation) - 1
realRate(nominal, inflation) == RSub(RDiv(RAdd(ROne, nominal), RAdd(ROne, inflation)), ROne)

\* const requiredCapitalReal = targetAnnualToday * annuityFactor
requiredCapitalReal(inp, n, L) ==
  RMul(targetAnnualToday(inp, n),
       realAnnuityFactor(realRate(postR(inp), inp.inflation), L))

\* denom = ((Math.pow(1 + realPreR, n) - 1) / (realPreR || 1e-9)) * (1 + realPreR)
extraDenom(realPreR, n) ==
  RMul(RDiv(RSub(pow(RAdd(ROne, realPreR), n), ROne),
            orElse(realPreR, DecimalOf(BOne, 9))),
       RAdd(ROne, realPreR))

\* addMonthlyToday = (denom > 0 ? shortfallReal / denom : 0) / 12
addMonthlyToday(shortfallReal, denom) ==
  RDiv(IF RGt(denom, RZero) THEN RDiv(shortfallReal, denom) ELSE RZero, RInt(12))

\* const fundedRatio = requiredCapitalReal > 0 ? assetsReal / requiredCapitalReal : 0
fundedRatio(assets, required) ==
  IF RGt(required, RZero) THEN RDiv(assets, required) ELSE RZero

\* let health = "bad"; if (fundedRatio >= 1) health = "good";
\* else if (fundedRatio >= 0.7) health = "warn"
health(ratio) ==
  IF RGe(ratio, ROne) THEN "good" ELSE IF RGe(ratio, R(7, 10)) THEN "warn" ELSE "bad"

\* the assessment from the assets and the requirement
resultsAssess(f, assets, required, shortfall) ==
  [pc |-> "done", inp |-> f.inp, n |-> f.n, L |-> f.L, k |-> f.k, rNet |-> f.rNet,
   assetsNominal |-> f.assetsNominal,
   assetsReal |-> assets,
   requiredCapitalReal |-> required,
   requiredCapitalNominal |-> RMul(required, pow(RAdd(ROne, f.inp.inflation), f.n)),
   shortfallReal |-> shortfall,
   addMonthlyToday |->
     addMonthlyToday(shortfall,
                     extraDenom(realRate(preR(f.inp), f.inp.inflation), f.n)),
   fundedRatio |-> fundedRatio(assets, required),
   health |-> health(fundedRatio(assets, required)),
   monthlySurplus |->
     RSub(RAdd(f.inp.monthlySalary, f.inp.otherMonthlyIncome), f.inp.monthlyExpenses)]

\* const shortfallReal = Math.max(0, requiredCapitalReal - assetsReal)
resultsShortfall(f, assets, required) ==
  resultsAssess(f, assets, required, RMax(RZero, RSub(required, assets)))

\* the rest of `results` after the products
resultsFunding(f) == resultsShortfall(f, assetsReal(f), requiredCapitalReal(f.inp, f.n, f.L))

(* the retirement planner's results, one product per step *)
\* the longest horizon to retirement modelled, in years
PlanMaxYears == 2

\* a product: returns of -75%, 0 and 9.375%, fees of 0 and 4.6875%, a missing
\* escalation (the planner falls back on inflation), amounts of either sign
Products ==
  [nominalReturn : {R(-3, 4), RZero, R(3, 32)},
   annualFees : {RZero, R(3, 64)},
   currentBalance : {RInt(-1000), RZero, RInt(1000)},
   monthlyContribution : {RInt(-100), RZero, RInt(100)},
   annualContributionEscalation : {NULL, <<RZero>>, <<R(3, 32)>>}]

\* the second product of a two-product plan
SecondProducts ==
  [nominalReturn : {R(3, 32)},
   annualFees : {RZero},
   currentBalance : {RInt(1000)},
   monthlyContribution : {RZero, RInt(100)},
   annualContributionEscalation : {NULL}]

ProductLists ==
  {<<>>} \cup {<<p>> : p \in Products}
         \cup {<<p, q>> : p \in SecondProducts, q \in SecondProducts}

\* the income target: the default replacement of a salary of 0, a replacement
\* of a salary, a stated monthly income
PlanTargets ==
  {[incomeMode |-> "replacement", monthlySalary |-> RZero, targetMonthlyIncomeToday |-> RInt(35000)],
   [incomeMode |-> "replacement", monthlySalary |-> RInt(50), targetMonthlyIncomeToday |-> RInt(35000)],
   [incomeMode |-> "absolute", monthlySalary |-> RInt(50), targetMonthlyIncomeToday |-> RInt(100)]}

\* inflation: none, 6.25%, and the -100% the Inflation field accepts, under
\* which amounts are deflated by a division by (1 + inflation)^n = 0
PlanInflations == {RInt(-1), RZero, R(1, 16)}

\* the assumptions every modelled plan shares: retirement at 65, a life
\* expectancy of 67, returns of 9.375% and 6.25%
PlanAssumptions ==
  [retireAge |-> RInt(65), lifeExpectancy |-> RInt(67),
   preReturnFallback |-> R(3, 32), postReturn |-> R(1, 16),
   salaryGrowth |-> R(1, 16), targetReplacementRatio |-> R(3, 4),
   otherMonthlyIncome |-> RZero, monthlyExpenses |-> RZero]

planInput(ps, n, infl, t) ==
   [products |-> ps,
    age |-> RInt(65 - n),
    retireAge |-> PlanAssumptions.retireAge,
    lifeExpectancy |-> PlanAssumptions.lifeExpectancy,
    inflation |-> infl,
    preReturnFallback |-> PlanAssumptions.preReturnFallback,
    postReturn |-> PlanAssumptions.postReturn,
    salaryGrowth |-> PlanAssumptions.salaryGrowth,
    targetReplacementRatio |-> PlanAssumptions.targetReplacementRatio,
    incomeMode |-> t.incomeMode, monthlySalary |-> t.monthlySalary,
    targetMonthlyIncomeToday |-> t.targetMonthlyIncomeToday,
    otherMonthlyIncome |-> PlanAssumptions.otherMonthlyIncome,
    monthlyExpenses |-> PlanAssumptions.monthlyExpenses]

PlanInit == /\ \E ps \in ProductLists, n \in 0..PlanMaxYears, infl \in PlanInflations,
                  t \in PlanTargets : plan = resultsEnter(planInput(ps, n, infl, t))
            /\ acc = idle /\ dd = idle /\ sol = idle /\ tv = idle /\ inv = idle /\ form = idle /\ res = idle

PlanProduct == /\ plan.pc = "products"
               /\ plan.k <= Len(plan.inp.products)
               /\ plan' = resultsProduct(plan)
               /\ UNCHANGED <<acc, dd, sol, tv, inv, form, res>>

PlanFunding == /\ plan.pc = "products"
               /\ plan.k > Len(plan.inp.products)
               /\ plan' = resultsFunding(plan)
               /\ UNCHANGED <<acc, dd, sol, tv, inv, form, res>>

PlanNext == PlanProduct \/ PlanFunding

SpecPlan == PlanInit /\ [][PlanNext]_vars

(* the time-value formulas, one formula per step *)
\* the longest horizon the formulas are evaluated on, in years
TVMaxYears == 2

\* annual rates: -50%, 0, 9.375% and the 10% of the sanity tests
TVRates == {R(-1, 2), RZero, R(3, 32), R(1, 10)}

\* the escalations tried with the growth rate r: equal to r, distinct from r,
\* and within 1e-8 of r
TVEscalations(r) == TVRates \cup {RAdd(r, DecimalOf(BOne, 9))}

\* a payment, a growth rate, an escalation, a whole number of years, a timing
TVArgs ==
  UNION {[P : {RInt(-100), RZero, RInt(1000)},
          r : {r},
          g : TVEscalations(r),
          years : {RInt(y) : y \in 0..TVMaxYears},
          timing : {"end", "begin"}] : r \in TVRates}

timeValueEnter(args) ==
  [pc |-> "annuity", args |-> args,
   annuityEnd |-> NULL, annuityBegin |-> NULL, escalating |-> NULL,
   growing |-> NULL, growingEnd |-> NULL, growingBegin |-> NULL,
   contribution |-> NULL]

\* fvContrib of the investment calculator's results:
\* g > 0 ? fvEscalatingAnnualContrib(Math.max(0, P || 0), r, g, years)
\*       : fvOrdinaryAnnuityMonthly(Math.max(0, P || 0), r, years, timing)
contributionValue(P, r, g, years, timing) ==
  IF RGt(g, RZero)
  THEN fvEscalatingAnnualContrib(RMax(RZero, orElse(P, RZero)), r, g, years)
  ELSE fvOrdinaryAnnuityMonthly(RMax(RZero, orElse(P, RZero)), r, years, timing)

TVInit == /\ \E a \in TVArgs : tv = timeValueEnter(a)
          /\ acc = idle /\ dd = idle /\ sol = idle /\ plan = idle /\ inv = idle /\ form = idle /\ res = idle

\* fvOrdinaryAnnuityMonthly(P, r, years, 'end') and (..., 'begin')
TVAnnuity ==
  /\ tv.pc = "annuity"
  /\ tv' = [tv EXCEPT
              !.annuityEnd = fvOrdinaryAnnuityMonthly(tv.args.P, tv.args.r, tv.args.years, "end"),
              !.annuityBegin = fvOrdinaryAnnuityMonthly(tv.args.P, tv.args.r, tv.args.years, "begin"),
              !.pc = "escalating"]
  /\ UNCHANGED <<acc, dd, sol, plan, inv, form, res>>

\* fvEscalatingAnnualContrib(P, r, g, years)
TVEscalating ==
  /\ tv.pc = "escalating"
  /\ tv' = [tv EXCEPT
              !.escalating = fvEscalatingAnnualContrib(tv.args.P, tv.args.r, tv.args.g, tv.args.years),
              !.pc = "growing"]
  /\ UNCHANGED <<acc, dd, sol, plan, inv, form, res>>

\* fvGrowingAnnuity(P * 12, r, g, years), as the planner calls it
TVGrowing ==
  /\ tv.pc = "growing"
  /\ tv' = [tv EXCEPT
              !.growing = fvGrowingAnnuity(RMul(tv.args.P, RInt(12)), tv.args.r, tv.args.g, tv.args.years),
              !.pc = "growingMonthly"]
  /\ UNCHANGED <<acc, dd, sol, plan, inv, form, res>>

\* fvGrowingAnnuityMonthly(P, r, g, years * 12, 'end') and (..., 'begin')
TVGrowingMonthly ==
  /\ tv.pc = "growingMonthly"
  /\ tv' = [tv EXCEPT
              !.growingEnd = fvGrowingAnnuityMonthly(tv.args.P, tv.args.r, tv.args.g, RMul(tv.args.years, RInt(12)), "end"),
              !.growingBegin = fvGrowingAnnuityMonthly(tv.args.P, tv.args.r, tv.args.g, RMul(tv.args.years, RInt(12)), "begin"),
              !.pc = "contribution"]
  /\ UNCHANGED <<acc, dd, sol, plan, inv, form, res>>

\* the contributions' value as the investment calculator selects it
TVContribution ==
  /\ tv.pc = "contribution"
  /\ tv' = [tv EXCEPT
              !.contribution = contributionValue(tv.args.P, tv.args.r, tv.args.g, tv.args.years, tv.args.timing),
              !.pc = "done"]
  /\ UNCHANGED <<acc, dd, sol, plan, inv, form, res>>

TVNext == \/ TVAnnuity
          \/ TVEscalating
          \/ TVGrowing
          \/ TVGrowingMonthly
          \/ TVContribution

SpecTV == TVInit /\ [][TVNext]_vars

(* -------------------------- investment calculator ---------------------- *)
\* The component keeps its inputs `inp` and a `version` counter. A typed text
\* is a sequence of characters.
charDigits == <<"0", "1", "2", "3", "4", "5", "6", "7", "8", "9">>

isDigit(c) == \E i \in 1..10 : charDigits[i] = c

digitOf(c) == (CHOOSE i \in 1..10 : charDigits[i] = c) - 1

\* /[^0-9.,-]/: the characters parseNum keeps
numeric(c) == isDigit(c) \/ c \in {".", ",", "-"}

\* .replace(",", "."): the first comma only
RECURSIVE commaToDot(_)
commaToDot(text) ==
  IF text = <<>> THEN <<>>
  ELSE IF Head(text) = "," THEN <<".">> \o Tail(text)
  ELSE <<Head(text)>> \o commaToDot(Tail(text))

\* the longest prefix of digits
RECURSIVE leadingDigits(_)
leadingDigits(text) ==
  IF text = <<>> \/ ~isDigit(Head(text)) THEN <<>>
  ELSE <<Head(text)>> \o leadingDigits(Tail(text))

\* the whole number a sequence of digits writes
digitsValue(digits) ==
  BFromDecimal([i \in 1..Len(digits) |-> digitOf(digits[i])], <<>>)

\* the digits after a decimal point at the head of the text
fractionDigits(text) ==
  IF text # <<>> /\ Head(text) = "." THEN leadingDigits(Tail(text)) ELSE <<>>

\* whole.fraction as a number, the nearest double; no digit at all is NaN
decimalValue(whole, fraction) ==
  IF whole = <<>> /\ fraction = <<>> THEN NaN
  ELSE DecimalOf(digitsValue(whole \o fraction), Len(fraction))

\* parseFloat of an unsigned text: digits, then a point and digits
unsignedValue(text) ==
  decimalValue(leadingDigits(text),
               fractionDigits(SubSeq(text, Len(leadingDigits(text)) + 1, Len(text))))

\* parseFloat: an optional sign, then the longest decimal prefix
parseFloat(text) ==
  IF text # <<>> /\ Head(text) = "-"
  THEN (IF isNaN(unsignedValue(Tail(text))) THEN NaN ELSE RNeg(unsignedValue(Tail(text))))
  ELSE unsignedValue(text)

\* isNaN(n) ? 0 : n
zeroIfNaN(n) == IF isNaN(n) THEN RZero ELSE n

\* function parseNum(v): strip, first comma to point, parseFloat, NaN to 0
parseNum(text) == zeroIfNaN(parseFloat(commaToDot(SelectSeq(text, numeric))))

\* const clamp = (x, min, max) => Math.min(max, Math.max(min, x))
clamp(x, min, max) == RMin(max, RMax(min, x))

\* const nonNeg = (x) => Math.max(0, x)
nonNeg(x) == RMax(RZero, x)

\* the rate a Percent field hands on: parseNum(e.target.value) / 100,
\* clamped by the handler to [-0.99, 2]
percentTyped(text) == clamp(RDiv(parseNum(text), RInt(100)), rateFloor, RInt(2))

\* function defaultInputs()
defaultInputs ==
  [mode |-> "lump_plus_monthly",
   lumpSum |-> RZero,
   monthlyContribution |-> RZero,
   years |-> RZero,
   targetAmountTodayR |-> RZero,
   contribEscalationPA |-> RZero,
   nominalReturnPA |-> R(1, 10),
   inflationPA |-> R(11, 200),
   timing |-> "end",
   hasTarget |-> TRUE]

\* useState(defaultInputs()), useState(0)
calculatorMount == [pc |-> "ready", inp |-> defaultInputs, version |-> 0]

\* every input put back to its default
resetToDefaults(f) == [f EXCEPT !.inp = defaultInputs, !.version = f.version + 1]

\* resetInfo: the four inputs back to 0, the others kept; version + 1
resetInfo(f) ==
  [f EXCEPT !.inp = [f.inp EXCEPT !.lumpSum = RZero,
                                  !.monthlyContribution = RZero,
                                  !.years = RZero,
                                  !.targetAmountTodayR = RZero],
            !.version = f.version + 1]

(* the calculator, one handler per step *)
\* the most presses of Reset followed
MaxResets == 2

\* texts typed into the amount fields (the last one into Years)
AmountTexts == {<<>>, <<"1", "0", "0", "0">>, <<"-", "5">>}
YearTexts == {<<>>, <<"2">>, <<"1", ",", "5">>}

\* texts typed into the percentage fields: 0.5% and -150%
PercentTexts == {<<".", "5">>, <<"-", "1", "5", "0">>}

\* what the handlers make of each text, computed once a text:
\* nonNeg(parseNum(e.target.value)) and the clamped percentage
amountTyped == [text \in AmountTexts \cup YearTexts |-> nonNeg(parseNum(text))]
rateTyped == [text \in PercentTexts |-> percentTyped(text)]

InvInit == /\ inv = calculatorMount
           /\ acc = idle /\ dd = idle /\ sol = idle /\ tv = idle /\ plan = idle /\ form = idle /\ res = idle

\* the mode buttons
InvSetMode ==
  /\ inv.pc = "ready"
  /\ \E m \in {"lump", "lump_plus_monthly"} : inv' = [inv EXCEPT !.inp.mode = m]
  /\ UNCHANGED <<acc, dd, sol, tv, plan, form, res>>

\* Lump Sum (R): lumpSum: nonNeg(parseNum(e.target.value))
InvSetLumpSum ==
  /\ inv.pc = "ready"
  /\ \E text \in AmountTexts : inv' = [inv EXCEPT !.inp.lumpSum = amountTyped[text]]
  /\ UNCHANGED <<acc, dd, sol, tv, plan, form, res>>

\* Monthly Contribution (R), shown in the mode lump_plus_monthly
InvSetMonthly ==
  /\ inv.pc = "ready"
  /\ inv.inp.mode = "lump_plus_monthly"
  /\ \E text \in AmountTexts :
       inv' = [inv EXCEPT !.inp.monthlyContribution = amountTyped[text]]
  /\ UNCHANGED <<acc, dd, sol, tv, plan, form, res>>

\* Contribution escalation, shown in the mode lump_plus_monthly
InvSetEscalation ==
  /\ inv.pc = "ready"
  /\ inv.inp.mode = "lump_plus_monthly"
  /\ \E text \in PercentTexts :
       inv' = [inv EXCEPT !.inp.contribEscalationPA = rateTyped[text]]
  /\ UNCHANGED <<acc, dd, sol, tv, plan, form, res>>

\* the timing buttons, shown in the mode lump_plus_monthly
InvSetTiming ==
  /\ inv.pc = "ready"
  /\ inv.inp.mode = "lump_plus_monthly"
  /\ \E t \in {"end", "begin"} : inv' = [inv EXCEPT !.inp.timing = t]
  /\ UNCHANGED <<acc, dd, sol, tv, plan, form, res>>

\* Years: years: nonNeg(parseNum(e.target.value))
InvSetYears ==
  /\ inv.pc = "ready"
  /\ \E text \in YearTexts : inv' = [inv EXCEPT !.inp.years = amountTyped[text]]
  /\ UNCHANGED <<acc, dd, sol, tv, plan, form, res>>

\* Expected return
InvSetReturn ==
  /\ inv.pc = "ready"
  /\ \E text \in PercentTexts :
       inv' = [inv EXCEPT !.inp.nominalReturnPA = rateTyped[text]]
  /\ UNCHANGED <<acc, dd, sol, tv, plan, form, res>>

\* Inflation
InvSetInflation ==
  /\ inv.pc = "ready"
  /\ \E text \in PercentTexts :
       inv' = [inv EXCEPT !.inp.inflationPA = rateTyped[text]]
  /\ UNCHANGED <<acc, dd, sol, tv, plan, form, res>>

\* the target checkbox
InvSetHasTarget ==
  /\ inv.pc = "ready"
  /\ \E b \in BOOLEAN : inv' = [inv EXCEPT !.inp.hasTarget = b]
  /\ UNCHANGED <<acc, dd, sol, tv, plan, form, res>>

\* Target Amount, shown while the target is enabled
InvSetTarget ==
  /\ inv.pc = "ready"
  /\ inv.inp.hasTarget
  /\ \E text \in AmountTexts :
       inv' = [inv EXCEPT !.inp.targetAmountTodayR = amountTyped[text]]
  /\ UNCHANGED <<acc, dd, sol, tv, plan, form, res>>

\* the Reset button
InvReset ==
  /\ inv.pc = "ready"
  /\ inv.version < MaxResets
  /\ inv' = resetInfo(inv)
  /\ UNCHANGED <<acc, dd, sol, tv, plan, form, res>>

InvNext == \/ InvSetMode
           \/ InvSetLumpSum
           \/ InvSetMonthly
           \/ InvSetEscalation
           \/ InvSetTiming
           \/ InvSetYears
           \/ InvSetReturn
           \/ InvSetInflation
           \/ InvSetHasTarget
           \/ InvSetTarget
           \/ InvReset

SpecInv == InvInit /\ [][InvNext]_vars

(* --------------------- investment calculator results ------------------- *)
\* One evaluation of `results` and `chart` of the InvestmentCalculator at the
\* head of src/src/InvestmentCalculator.tsx: the maturity values
\* (pc = "values"), the yearly series one point per step (pc = "series"), then
\* the chart's end values.

\* const months = Math.max(0, Math.round((inp.years || 0) * 12))
projectionMonths(inp) ==
  RMax(RZero, RRound(RMul(orElse(inp.years, RZero), RInt(12))))

\* Math.max(0, inp.lumpSum || 0)
lumpSumOf(inp) == RMax(RZero, orElse(inp.lumpSum, RZero))

\* const fvLump = inp.mode !== 'monthly' ? fvLumpMonthly(..., r, months) : 0
projectionLump(inp) ==
  IF inp.mode # "monthly"
  THEN fvLumpMonthly(lumpSumOf(inp), inp.nominalReturnPA, projectionMonths(inp))
  ELSE RZero

\* let fvContrib = 0; if (inp.mode !== 'lump') { ... }
projectionContrib(inp) ==
  IF inp.mode # "lump"
  THEN contributionValue(inp.monthlyContribution, inp.nominalReturnPA,
                         inp.contribEscalationPA, inp.years, inp.timing)
  ELSE RZero

projectionEnter(inp) ==
  [pc |-> "values", inp |-> inp,
   fvLump |-> RZero, fvContrib |-> RZero, projectedNominal |-> RZero,
   seriesLump |-> <<>>, seriesContrib |-> <<>>, yrs |-> RZero, y |-> 0,
   endValues |-> NULL]

projectionSum(f, lump, contrib) ==
  [f EXCEPT !.fvLump = lump, !.fvContrib = contrib,
            !.projectedNominal = RAdd(lump, contrib),
            !.yrs = RMax(ROne, RFloor(f.inp.years)), !.y = 0, !.pc = "series"]

\* fvLump, fvContrib, projectedNominal = fvLump + fvContrib, and
\* const yrs = Math.max(1, Math.floor(inp.years))
projectionValues(f) == projectionSum(f, projectionLump(f.inp), projectionContrib(f.inp))

\* seriesLump.push(fvLumpMonthly(Math.max(0, inp.lumpSum || 0), r, y * 12))
seriesLumpAt(inp, y) == fvLumpMonthly(lumpSumOf(inp), inp.nominalReturnPA, RInt(y * 12))

\* seriesContrib.push(g > 0 ? fvEscalatingAnnualContrib(..., y)
\*                          : fvOrdinaryAnnuityMonthly(..., y, inp.timing))
seriesContribAt(inp, y) ==
  contributionValue(inp.monthlyContribution, inp.nominalReturnPA,
                    inp.contribEscalationPA, RInt(y), inp.timing)

\* one pass of `for (let y = 0; y <= yrs; y++)`
projectionPoint(f) ==
  [f EXCEPT !.seriesLump = Append(f.seriesLump, seriesLumpAt(f.inp, f.y)),
            !.seriesContrib = Append(f.seriesContrib, seriesContribAt(f.inp, f.y)),
            !.y = f.y + 1]

\* const total = lump.map((v, i) => v + (contrib[i] || 0)) at i
chartTotalAt(f, i) == RAdd(f.seriesLump[i], orElse(f.seriesContrib[i], RZero))

\* const n = Math.max(2, lump.length); const i = n - 1 (as a 1-based position);
\* endValues: { total: total[i] || 0, lump: lump[i] || 0, contrib: contrib[i] || 0 }
projectionChart(f) ==
  [f EXCEPT !.endValues = [total |-> orElse(chartTotalAt(f, Max2(2, Len(f.seriesLump))), RZero),
                           lump |-> orElse(f.seriesLump[Max2(2, Len(f.seriesLump))], RZero),
                           contrib |-> orElse(f.seriesContrib[Max2(2, Len(f.seriesLump))], RZero)],
            !.pc = "done"]

\* the longest horizon of the projection, in years
ResMaxYears == 2

\* the inputs the form can hold: every mode with either amount left at 0 or
\* entered before the mode was switched
ResInputs ==
  [mode : {"lump", "monthly", "lump_plus_monthly"},
   lumpSum : {RZero, RInt(50000)},
   monthlyContribution : {RZero, RInt(1000)},
   years : {RInt(y) : y \in 0..ResMaxYears},
   nominalReturnPA : {RZero, R(3, 32)},
   contribEscalationPA : {RZero, R(1, 10)},
   timing : {"end", "begin"}]

ResInit == /\ \E inp \in ResInputs : res = projectionEnter(inp)
           /\ acc = idle /\ dd = idle /\ sol = idle /\ tv = idle /\ plan = idle
           /\ inv = idle /\ form = idle

ResValues == /\ res.pc = "values"
             /\ res' = projectionValues(res)
             /\ UNCHANGED <<acc, dd, sol, tv, plan, inv, form>>

ResPoint == /\ res.pc = "series"
            /\ RLe(RInt(res.y), res.yrs)
            /\ res' = projectionPoint(res)
            /\ UNCHANGED <<acc, dd, sol, tv, plan, inv, form>>

ResChart == /\ res.pc = "series"
            /\ ~RLe(RInt(res.y), res.yrs)
            /\ res' = projectionChart(res)
            /\ UNCHANGED <<acc, dd, sol, tv, plan, inv, form>>

ResNext == ResValues \/ ResPoint \/ ResChart

SpecRes == ResInit /\ [][ResNext]_vars

(* ------------------------ retirement planner form --------------------- *)
\* The component state of the RetirementCalculator of part_001: the inputs
\* the auto-managed product depends on, and `seen`, the dependency values of
\* the last run of the auto-management effect (NULL before the first run).
\* The effect runs after a render whose dependencies differ from `seen`;
\* React runs it before it handles the next user event.

\* /[^0-9.-]/: the characters the planner's parseNum keeps (a comma is dropped)
numeric_part001(c) == isDigit(c) \/ c \in {".", "-"}

\* function parseNum(v) of part_001: strip, parseFloat, NaN to 0
parseNum_part001(text) == zeroIfNaN(parseFloat(SelectSeq(text, numeric_part001)))

\* Percent: const raw = (e.target.value || '').replace(',', '.');
\* onChange(parseNum(raw) / 100)
Percent_part001(text) == RDiv(parseNum_part001(commaToDot(text)), RInt(100))

AUTO_ID == "__AUTO_EMPLOYER__"

\* function defaultInputs() of part_001, the fields the products depend on
defaultInputs_part001 ==
  [monthlySalary |-> RZero,
   employeeContribPct |-> RZero,
   employerContribPct |-> RZero,
   contribEscalation |-> R(65, 1000),
   preReturnFallback |-> R(9, 100),
   products |-> <<>>]

\* const [inp, setInp] = useState(defaultInputs())
\* (`edits` counts the edits made so far to the fields listed at MaxDetailEdits)
plannerMount ==
  [pc |-> "ready", inp |-> defaultInputs_part001, seen |-> NULL, edits |-> 0]

\* const employeeMonthly = inp.monthlySalary * inp.employeeContribPct
employeeMonthly(inp) == RMul(inp.monthlySalary, inp.employeeContribPct)

\* const employerMonthly = inp.monthlySalary * inp.employerContribPct
employerMonthly(inp) == RMul(inp.monthlySalary, inp.employerContribPct)

\* [employeeMonthly, employerMonthly, inp.employeeContribPct, inp.employerContribPct]
effectDeps(inp) ==
  [employeeMonthly |-> employeeMonthly(inp),
   employerMonthly |-> employerMonthly(inp),
   employeeContribPct |-> inp.employeeContribPct,
   employerContribPct |-> inp.employerContribPct]

\* the dependencies are those of the last run of the effect, each compared
\* with Object.is
sameDeps(seen, inp) ==
  /\ seen # NULL
  /\ ObjectIs(Head(seen).employeeMonthly, employeeMonthly(inp))
  /\ ObjectIs(Head(seen).employerMonthly, employerMonthly(inp))
  /\ ObjectIs(Head(seen).employeeContribPct, inp.employeeContribPct)
  /\ ObjectIs(Head(seen).employerContribPct, inp.employerContribPct)

\* v.products.some(p => p.id === AUTO_ID)
hasAuto(products) == \E i \in 1..Len(products) : products[i].id = AUTO_ID

\* prevAuto ? prevAuto.currentBalance : 0
prevAutoBalance(products) ==
  IF hasAuto(products)
  THEN products[CHOOSE i \in 1..Len(products) : products[i].id = AUTO_ID].currentBalance
  ELSE RZero

\* const product = { id: AUTO_ID, ..., monthlyContribution: Math.round(total), ... }
autoProduct(v, total) ==
  [id |-> AUTO_ID, type |-> "Pension/Provident", provider |-> "Employer Fund (Auto)",
   currentBalance |-> prevAutoBalance(v.products),
   monthlyContribution |-> RRound(total),
   annualContributionEscalation |-> v.contribEscalation,
   nominalReturn |-> v.preReturnFallback,
   annualFees |-> R(1, 100)]

\* v.products.map(p => (p.id === AUTO_ID ? product : p))
replaceAuto(products, product) ==
  [i \in 1..Len(products) |-> IF products[i].id = AUTO_ID THEN product ELSE products[i]]

\* v.products.filter(p => p.id !== id)
withoutProduct(products, id) == SelectSeq(products, LAMBDA p : p.id # id)

autoManagedWith(v, product) ==
  IF hasAuto(v.products)
  THEN [v EXCEPT !.products = replaceAuto(v.products, product)]
  ELSE [v EXCEPT !.products = <<product>> \o v.products]

\* the auto product kept once the contributions are gone
autoManagedKeeping(v, total) ==
  IF RGt(v.employeeContribPct, RZero) \/ RGt(v.employerContribPct, RZero)
  THEN autoManagedWith(v, autoProduct(v, total))
  ELSE v

\* the effect's updater: setInp(v => ...) with total = employeeMonthly + employerMonthly
autoManaged(v, total) ==
  IF RGt(v.employeeContribPct, RZero) \/ RGt(v.employerContribPct, RZero)
  THEN autoManagedWith(v, autoProduct(v, total))
  ELSE IF hasAuto(v.products)
  THEN [v EXCEPT !.products = withoutProduct(v.products, AUTO_ID)]
  ELSE v

\* one run of the effect on the rendered inputs
autoManageEffect(f) ==
  [f EXCEPT !.inp = autoManaged(f.inp, RAdd(employeeMonthly(f.inp), employerMonthly(f.inp))),
            !.seen = <<effectDeps(f.inp)>>]

\* Add product: { id: uid(), type: 'RA', provider: '', currentBalance: 0, ... }
addedProduct(v, id) ==
  [id |-> id, type |-> "RA", provider |-> "",
   currentBalance |-> RZero,
   monthlyContribution |-> RZero,
   annualContributionEscalation |-> v.contribEscalation,
   nominalReturn |-> v.preReturnFallback,
   annualFees |-> R(1, 100)]

\* v.products.map(x => x.id === p.id ? {...x, currentBalance: value} : x)
withBalance(products, id, value) ==
  [i \in 1..Len(products) |->
     IF products[i].id = id THEN [products[i] EXCEPT !.currentBalance = value]
     ELSE products[i]]

\* v.products.map(x => x.id === p.id ? {...x, monthlyContribution: value} : x)
withContribution(products, id, value) ==
  [i \in 1..Len(products) |->
     IF products[i].id = id THEN [products[i] EXCEPT !.monthlyContribution = value]
     ELSE products[i]]

\* v.products.map(x => x.id === p.id ? {...x, type} : x)
withType(products, id, type) ==
  [i \in 1..Len(products) |->
     IF products[i].id = id THEN [products[i] EXCEPT !.type = type]
     ELSE products[i]]

\* v.products.map(x => x.id === p.id ? {...x, provider: e.target.value} : x)
withProvider(products, id, provider) ==
  [i \in 1..Len(products) |->
     IF products[i].id = id THEN [products[i] EXCEPT !.provider = provider]
     ELSE products[i]]

\* v.products.map(x => x.id === p.id ? {...x, annualContributionEscalation: val} : x)
withEscalation(products, id, val) ==
  [i \in 1..Len(products) |->
     IF products[i].id = id
     THEN [products[i] EXCEPT !.annualContributionEscalation = val]
     ELSE products[i]]

\* v.products.map(x => x.id === p.id ? {...x, nominalReturn: val} : x)
withReturn(products, id, val) ==
  [i \in 1..Len(products) |->
     IF products[i].id = id THEN [products[i] EXCEPT !.nominalReturn = val]
     ELSE products[i]]

\* v.products.map(x => x.id === p.id ? {...x, annualFees: val} : x)
withFees(products, id, val) ==
  [i \in 1..Len(products) |->
     IF products[i].id = id THEN [products[i] EXCEPT !.annualFees = val]
     ELSE products[i]]

\* const resetInfo = () => setInp(defaultInputs())
resetInfo_part001(f) == [f EXCEPT !.inp = defaultInputs_part001]

\* the products the user adds: uid() draws an id that is not in use
MaxProducts == 1

\* the most edits followed in one session of the fields that no dependency of
\* the effect reads: Contrib Escalation, Fallback Pre-ret Return, and a
\* product's type, provider, escalation, return and fees
MaxDetailEdits == 1
ProductIds == {"p1", "p2", "p3"}
userIds(products) == {products[i].id : i \in 1..Len(products)} \ {AUTO_ID}

\* texts typed into the salary, the percentage and the product fields:
\* a salary whose contributions are not whole, a salary of -0, 7.5% typed
\* with a comma, -5%
SalaryTexts == {<<>>, <<"2", "0", "0", "0", "1">>, <<"-", "0">>}
RateTexts == {<<"0">>, <<"7", ",", "5">>, <<"-", "5">>}
ProductTexts == {<<"5", "0", "0">>}

\* texts typed into Contrib Escalation and Fallback Pre-ret Return, and into
\* the three percentages of a product
EscalationTexts == {<<"1", "0">>}
ReturnTexts == {<<"1", "2">>}
ProductRateTexts == {<<"2">>}

\* the type picked in a product's select and the text typed as its provider
TypesPicked == {"Preservation"}
ProviderTexts == {"Fund A"}

\* what parseNum and the Percent field make of each text, computed once a text
numberTyped == [text \in SalaryTexts \cup ProductTexts |-> parseNum_part001(text)]
percentOf ==
  [text \in RateTexts \cup EscalationTexts \cup ReturnTexts \cup ProductRateTexts
     |-> Percent_part001(text)]

\* the effects have run: the next user event is handled
settled == form.pc = "ready" /\ sameDeps(form.seen, form.inp)

FormInit == /\ form = plannerMount
            /\ acc = idle /\ dd = idle /\ sol = idle /\ tv = idle /\ plan = idle
            /\ inv = idle /\ res = idle

\* the auto-management effect, after the mount and after a render that
\* changed one of its dependencies
FormEffect ==
  /\ form.pc = "ready"
  /\ ~sameDeps(form.seen, form.inp)
  /\ form' = autoManageEffect(form)
  /\ UNCHANGED <<acc, dd, sol, tv, plan, inv, res>>

\* Pensionable Salary (Monthly): monthlySalary: parseNum(e.target.value)
FormSetSalary ==
  /\ settled
  /\ \E text \in SalaryTexts :
       form' = [form EXCEPT !.inp.monthlySalary = numberTyped[text]]
  /\ UNCHANGED <<acc, dd, sol, tv, plan, inv, res>>

\* Employee contribution %
FormSetEmployeePct ==
  /\ settled
  /\ \E text \in RateTexts :
       form' = [form EXCEPT !.inp.employeeContribPct = percentOf[text]]
  /\ UNCHANGED <<acc, dd, sol, tv, plan, inv, res>>

\* Employer contribution %
FormSetEmployerPct ==
  /\ settled
  /\ \E text \in RateTexts :
       form' = [form EXCEPT !.inp.employerContribPct = percentOf[text]]
  /\ UNCHANGED <<acc, dd, sol, tv, plan, inv, res>>

\* Contrib Escalation (% p.a.)
FormSetContribEscalation ==
  /\ settled
  /\ form.edits < MaxDetailEdits
  /\ \E text \in EscalationTexts :
       form' = [form EXCEPT !.edits = @ + 1,
                          !.inp.contribEscalation = percentOf[text]]
  /\ UNCHANGED <<acc, dd, sol, tv, plan, inv, res>>

\* Fallback Pre-ret Return (% p.a.)
FormSetPreReturnFallback ==
  /\ settled
  /\ form.edits < MaxDetailEdits
  /\ \E text \in ReturnTexts :
       form' = [form EXCEPT !.edits = @ + 1,
                          !.inp.preReturnFallback = percentOf[text]]
  /\ UNCHANGED <<acc, dd, sol, tv, plan, inv, res>>

\* Add product
FormAddProduct ==
  /\ settled
  /\ Cardinality(userIds(form.inp.products)) < MaxProducts
  /\ form' = [form EXCEPT !.inp.products =
                 Append(form.inp.products,
                        addedProduct(form.inp, CHOOSE id \in ProductIds :
                                                 id \notin userIds(form.inp.products)))]
  /\ UNCHANGED <<acc, dd, sol, tv, plan, inv, res>>

\* Remove, shown on every product but the auto product
FormRemoveProduct ==
  /\ settled
  /\ \E id \in userIds(form.inp.products) :
       form' = [form EXCEPT !.inp.products = withoutProduct(form.inp.products, id)]
  /\ UNCHANGED <<acc, dd, sol, tv, plan, inv, res>>

\* Current Balance (R) of any product, the auto product included
FormSetProductBalance ==
  /\ settled
  /\ \E i \in 1..Len(form.inp.products), text \in ProductTexts :
       form' = [form EXCEPT !.inp.products =
                  withBalance(form.inp.products, form.inp.products[i].id,
                              numberTyped[text])]
  /\ UNCHANGED <<acc, dd, sol, tv, plan, inv, res>>

\* Monthly Contribution (R) of any product, the auto product included
FormSetProductContribution ==
  /\ settled
  /\ \E i \in 1..Len(form.inp.products), text \in ProductTexts :
       form' = [form EXCEPT !.inp.products =
                  withContribution(form.inp.products, form.inp.products[i].id,
                                   numberTyped[text])]
  /\ UNCHANGED <<acc, dd, sol, tv, plan, inv, res>>

\* the type select of any product, the auto product included
FormSetProductType ==
  /\ settled
  /\ form.edits < MaxDetailEdits
  /\ \E i \in 1..Len(form.inp.products), type \in TypesPicked :
       form' = [form EXCEPT !.edits = @ + 1,
                          !.inp.products =
                  withType(form.inp.products, form.inp.products[i].id, type)]
  /\ UNCHANGED <<acc, dd, sol, tv, plan, inv, res>>

\* Provider / Policy name of any product, the auto product included
FormSetProductProvider ==
  /\ settled
  /\ form.edits < MaxDetailEdits
  /\ \E i \in 1..Len(form.inp.products), provider \in ProviderTexts :
       form' = [form EXCEPT !.edits = @ + 1,
                          !.inp.products =
                  withProvider(form.inp.products, form.inp.products[i].id, provider)]
  /\ UNCHANGED <<acc, dd, sol, tv, plan, inv, res>>

\* Contribution Esc. (% p.a.) of any product, the auto product included
FormSetProductEscalation ==
  /\ settled
  /\ form.edits < MaxDetailEdits
  /\ \E i \in 1..Len(form.inp.products), text \in ProductRateTexts :
       form' = [form EXCEPT !.edits = @ + 1,
                          !.inp.products =
                  withEscalation(form.inp.products, form.inp.products[i].id,
                                 percentOf[text])]
  /\ UNCHANGED <<acc, dd, sol, tv, plan, inv, res>>

\* Return (% p.a.) of any product, the auto product included
FormSetProductReturn ==
  /\ settled
  /\ form.edits < MaxDetailEdits
  /\ \E i \in 1..Len(form.inp.products), text \in ProductRateTexts :
       form' = [form EXCEPT !.edits = @ + 1,
                          !.inp.products =
                  withReturn(form.inp.products, form.inp.products[i].id,
                             percentOf[text])]
  /\ UNCHANGED <<acc, dd, sol, tv, plan, inv, res>>

\* Fees (TER+advice, % p.a.) of any product, the auto product included
FormSetProductFees ==
  /\ settled
  /\ form.edits < MaxDetailEdits
  /\ \E i \in 1..Len(form.inp.products), text \in ProductRateTexts :
       form' = [form EXCEPT !.edits = @ + 1,
                          !.inp.products =
                  withFees(form.inp.products, form.inp.products[i].id,
                           percentOf[text])]
  /\ UNCHANGED <<acc, dd, sol, tv, plan, inv, res>>

\* Reset Info
FormReset ==
  /\ settled
  /\ form' = resetInfo_part001(form)
  /\ UNCHANGED <<acc, dd, sol, tv, plan, inv, res>>

FormNext ==
  \/ FormEffect \/ FormSetSalary \/ FormSetEmployeePct \/ FormSetEmployerPct
  \/ FormSetContribEscalation \/ FormSetPreReturnFallback
  \/ FormAddProduct \/ FormRemoveProduct
  \/ FormSetProductType \/ FormSetProductProvider
  \/ FormSetProductBalance \/ FormSetProductContribution
  \/ FormSetProductEscalation \/ FormSetProductReturn \/ FormSetProductFees
  \/ FormReset

SpecForm == FormInit /\ [][FormNext]_vars

(* ------------------------- claims: solveRecommended -------------------- *)
\* the call has returned
SolveDone == sol.pc = "done"

\* the calls of fn made by the bracket expansion
expansions == IF sol.pc \in {"idle", "start"} THEN 0 ELSE sol.evals - 1 - sol.i

\* an ordinary recommendation: a whole number of finite magnitude
ordinaryNumber(ret) ==
  /\ ret # NULL
  /\ RIsInt(ret[1])

\* at most 1 + 28 + 48 evaluations of fn, at most 28 of them expansions, and a
\* return after exactly 48 bisection steps with a finite whole number
withinBudget ==
  /\ sol.evals <= 77
  /\ expansions <= 28
  /\ sol.i <= 48
  /\ SolveDone => (sol.i = 48 /\ sol.evals = 1 + expansions + 48 /\ ordinaryNumber(sol.ret))

\* how far the call has come: every evaluation of fn and every change of
\* position adds to it
progress ==
  3 * sol.evals + (CASE sol.pc = "bisect" -> 1 [] sol.pc = "done" -> 2 [] OTHER -> 0)

\* C3: for every outcome function, monotone or not, solveRecommended evaluates
\* fn at most 77 times (1 at hi, at most 28 expansions, exactly 48 bisection
\* steps) and returns a finite number; every step it takes is progress within
\* that budget, so it never loops unboundedly.
C3_BoundedTermination == [](withinBudget) /\ [][progress' > progress]_vars

\* a call that spent the whole budget on a function that is never acceptable
C3_Witness ==
  /\ SolveDone
  /\ sol.fn.kind = "never"
  /\ sol.evals = 77
  /\ expansions = 28

\* the highest upper bound the expansion tries from the initial hi0
reach(hi0) == expandedBy(hi0, guardLimit)

\* C4: for a monotone outcome function with threshold T >= 0 within reach of
\* the bracket expansion, the returned whole number differs from T by at most
\* 1, and it is 0 when fn(0) is already acceptable.
C4_MinimalCandidate ==
  (/\ SolveDone
   /\ sol.fn.kind \in MonotoneKinds
   /\ RGe(sol.fn.t, RZero)
   /\ RLe(sol.fn.t, reach(sol.hi0))) =>
    /\ RLe(RAbs(RSub(sol.ret[1], sol.fn.t)), ROne)
    /\ ok(callFn(sol.fn, RZero)) => sol.ret[1] = RZero

\* a threshold between whole units above the initial upper bound: the bracket
\* was expanded and the bisection returned the nearest whole unit
C4_Witness ==
  /\ SolveDone
  /\ sol.fn.kind = "ge"
  /\ sol.fn.t = R(4500001, 3)
  /\ sol.hi0 = RInt(100000)
  /\ expansions > 0
  /\ sol.ret[1] = RInt(1500000)

\* C5: when all 28 expansions fail to find an acceptable upper bound, the
\* caller receives an outcome that is not an ordinary numeric recommendation.
C5_BracketFailureSurfaced ==
  (SolveDone /\ ~ok(sol.rHi)) => ~ordinaryNumber(sol.ret)

\* the final value of the accumulation solved for, at monthly contribution m
finalValueAt(m) == accumulate([sol.fn.args EXCEPT !.monthlyStart = m]).fv

\* a solved accumulation target: the bracket was found and the target is not
\* met without contributing
targetSolved ==
  /\ SolveDone
  /\ sol.fn.kind = "target"
  /\ ok(sol.rHi)
  /\ RLe(finalValueAt(RZero), sol.fn.t)

\* the final value of contributing 1 currency unit a month from a zero balance
unitContributionValue ==
  accumulate([sol.fn.args EXCEPT !.startBalance = RZero, !.monthlyStart = ROne]).fv

\* C6 as stated: the returned contribution, fed back into accumulate, yields a
\* final value within 1 currency unit of the target.
C6_TargetWithinOneUnit ==
  targetSolved => RLe(RAbs(RSub(finalValueAt(sol.ret[1]), sol.fn.t)), ROne)

\* C6 amended: the final value is within the final value of a contribution of
\* 1 currency unit a month of the target.
C6_TargetWithinOneContribution ==
  targetSolved => RLe(RAbs(RSub(finalValueAt(sol.ret[1]), sol.fn.t)), unitContributionValue)

\* a one-year target met by a positive whole contribution whose final value is
\* more than 1 unit off the target
C6_Witness ==
  /\ targetSolved
  /\ sol.fn.args.years = ROne
  /\ RGt(sol.ret[1], RZero)
  /\ RGt(RAbs(RSub(finalValueAt(sol.ret[1]), sol.fn.t)), ROne)
  /\ RLe(RAbs(RSub(finalValueAt(sol.ret[1]), sol.fn.t)), unitContributionValue)

\* the outcome functions that are unacceptable below a threshold and
\* acceptable from it on
monotoneFn == sol.fn.kind \in MonotoneKinds \cup {"drawdown", "target", "always"}

\* C25: when the outcome function is monotone and an acceptable upper bound was
\* found, the whole number returned by solveRecommended is itself an
\* acceptable candidate: fn(result) has no run-out age and an end balance >= 0.
C25_ResultAcceptable ==
  (SolveDone /\ monotoneFn /\ ok(sol.rHi)) => ok(callFn(sol.fn, sol.ret[1]))

\* the lower bound of every call (the app and the runtime test pass lo = 0),
\* and the upper bound once the bracket expansion is over
initialLo == RZero
expandedHi == expandedBy(sol.hi0, expansions)

\* lo <= hi throughout the call
ordered == sol.pc # "idle" => RLe(sol.lo, sol.hi)

\* a bisection step and the candidate it evaluated
bisectionStep == sol.pc = "bisect" /\ sol'.pc = "bisect" /\ sol'.i = sol.i + 1
candidate == RDiv(RAdd(sol.lo, sol.hi), RInt(2))

\* the step moved one bound onto the candidate: hi when the candidate was
\* evaluated acceptable, lo when it was evaluated unacceptable
boundMoved ==
  IF ok(callFn(sol.fn, candidate))
  THEN REq(sol'.hi, candidate) /\ sol'.lo = sol.lo
  ELSE REq(sol'.lo, candidate) /\ sol'.hi = sol.hi

\* C26 as stated: lo <= hi at every step; every value assigned to hi during
\* bisection was evaluated acceptable and every value assigned to lo was
\* evaluated unacceptable; the returned value lies between the initial lo and
\* the expanded hi.
C26_BracketAsStated ==
  /\ [](ordered)
  /\ [](SolveDone => RGe(sol.ret[1], initialLo) /\ RLe(sol.ret[1], expandedHi))
  /\ [][bisectionStep => boundMoved]_vars

\* C26 amended: the returned value is within half a unit of the interval from
\* the initial lo to the expanded hi.
C26_BracketWithinHalfUnit ==
  /\ [](ordered)
  /\ [](SolveDone => /\ RGe(sol.ret[1], RSub(initialLo, RHalf))
                     /\ RLe(sol.ret[1], RAdd(expandedHi, RHalf)))
  /\ [][bisectionStep => boundMoved]_vars

\* the threshold 1708593.7 lies just under the expanded bound 1708593.75: the
\* bisection closes in on it between the two and the midpoint is rounded up
\* past the expanded bound
C26_Witness ==
  /\ SolveDone
  /\ sol.fn.kind = "ge"
  /\ REq(sol.fn.t, R(17085937, 10))
  /\ expansions = 7
  /\ REq(expandedHi, R(170859375, 100))
  /\ RLt(sol.lo, sol.fn.t) /\ RLe(sol.fn.t, sol.hi) /\ RLe(sol.hi, expandedHi)
  /\ sol.ret[1] = RInt(1708594)

(* ------------------------- claims: simulateDrawdown -------------------- *)
\* the call has made at least one pass of its loop
DrawActed == dd.pc \in {"loop", "done"} /\ dd.m >= 1

\* the capital the drawdown starts from: Math.max(0, startFV - capitalNeedsAtRet)
startCapital(args) == RMax(RZero, RSub(args.startFV, args.capitalNeedsAtRet))

\* C1: with a non-negative starting capital and income need, each month's
\* withdrawal is the smaller of the balance after growth and the nominal income
\* need, so it never exceeds the balance, and every recorded balance and the
\* ending balance are >= 0.
C1_WithdrawalWithinBalance ==
  (DrawActed /\ RGe(dd.args.monthlyIncomeTodayR, RZero)) =>
    /\ RLe(dd.out, dd.grown)
    /\ RLe(dd.out, dd.incomeNominal)
    /\ (REq(dd.out, dd.grown) \/ REq(dd.out, dd.incomeNominal))
    /\ \A k \in 1..Len(dd.pts) : RGe(dd.pts[k].balance, RZero)
    /\ RGe(dd.bal, RZero)

\* a month in which the balance did not cover the need: a partial withdrawal
C1_Witness ==
  /\ DrawActed
  /\ RGt(dd.grown, RZero)
  /\ RLt(dd.grown, dd.incomeNominal)
  /\ REq(dd.out, dd.grown)

\* the months 0..monthsToEnd the caller asked for
horizonMonths(args) ==
  RToInt(RMax(RZero, RRound(RMul(RSub(args.endAge, args.retireAge), RInt(12)))))

\* the indices of the recorded points whose balance is <= 0
exhaustedPoints == {k \in 1..Len(dd.pts) : RLe(dd.pts[k].balance, RZero)}

\* C2: the returned series has one point for every month 0..monthsToEnd;
\* runOutAge is the age of the first point whose balance is <= 0 (null when
\* there is none); the simulation goes on after it and every later point has
\* balance 0.
C2_FullHorizonAndFirstExhaustion ==
  dd.pc = "done" =>
    /\ Len(dd.pts) = horizonMonths(dd.args) + 1
    /\ \A k \in 1..Len(dd.pts) : REq(dd.pts[k].age, RAdd(dd.args.retireAge, R(k - 1, 12)))
    /\ IF exhaustedPoints = {} THEN dd.runOutAge = NULL
       ELSE /\ dd.runOutAge # NULL
            /\ REq(dd.runOutAge[1], dd.pts[SetMin(exhaustedPoints)].age)
            /\ \A k \in 1..Len(dd.pts) :
                 k > SetMin(exhaustedPoints) => REq(dd.pts[k].balance, RZero)

\* a call whose capital ran out before the last simulated month
C2_Witness ==
  /\ dd.pc = "done"
  /\ exhaustedPoints # {}
  /\ SetMin(exhaustedPoints) > 1
  /\ SetMin(exhaustedPoints) + 6 < Len(dd.pts)

\* the starting capital compounded at the monthly growth rate over the
\* monthsToEnd + 1 simulated months
capitalFutureValue(f) ==
  XMul(startCapital(f.args),
       XPow(XAdd(XOne, RDiv(f.args.postRetGrowthPA, RInt(12))), RToInt(f.monthsToEnd) + 1))

\* x <= y up to the rounding of the arithmetic (a relative 2^-40), the two
\* compared as exact values
roundingMargin == XPow2(-40)
notAbove(x, y) ==
  isFinite(x) /\ isFinite(y) /\ XLe(x, XAdd(y, XMul(roundingMargin, XAbs(y))))

\* the withdrawals of the call and the present value of its ending balance
paidAndKept(f) == totalWithdrawn(f.sumOut, f.pvAtStart)

\* C9 as stated: the withdrawals plus the present value of the ending balance
\* never exceed the starting capital's future value (beyond the rounding of
\* the arithmetic).
C9_ConservationAsStated ==
  dd.pc = "done" => notAbove(paidAndKept(dd), capitalFutureValue(dd))

\* the finished call of the copy in src/unnamed/part_002 on the same arguments
finished_part002 == simulateDrawdownRun_part002(simulateDrawdownEnter(dd.args))

\* C9 amended: the same bound, beyond the rounding of the arithmetic, when the
\* income need, the post-retirement growth rate and the inflation rate are all
\* non-negative: in the copy of src/src/RetirementCalculator.tsx for every
\* such input, and in the copy of src/unnamed/part_002 when endAge is not
\* before startAge.
C9_ConservationNonNegativeRates ==
  (/\ dd.pc = "done"
   /\ RGe(dd.args.monthlyIncomeTodayR, RZero)
   /\ RGe(dd.args.postRetGrowthPA, RZero)
   /\ RGe(dd.args.cpiPA, RZero)) =>
    /\ notAbove(paidAndKept(dd), capitalFutureValue(dd))
    /\ RGe(dd.args.endAge, dd.args.startAge) =>
         notAbove(paidAndKept(finished_part002), capitalFutureValue(finished_part002))

\* a finished drawdown at positive growth and inflation, today after the
\* retirement and before the end, that paid withdrawals and kept a surplus in
\* both copies, the copy of part_002 paying less
C9_Witness ==
  /\ dd.pc = "done"
  /\ RGt(dd.args.postRetGrowthPA, RZero)
  /\ RGt(dd.args.cpiPA, RZero)
  /\ RGt(dd.args.startAge, dd.args.retireAge)
  /\ RGt(dd.args.endAge, dd.args.startAge)
  /\ RGt(dd.sumOut, RZero)
  /\ RGt(dd.bal, RZero)
  /\ RGt(finished_part002.bal, RZero)
  /\ XLt(finished_part002.sumOut, dd.sumOut)
  /\ RGe(dd.monthsToEnd, RInt(12))

\* one year of the income need, inflated to the retirement date
oneYearNeed(args) ==
  RMul(RInt(12),
       RMul(args.monthlyIncomeTodayR,
            pow(RAdd(ROne, RDiv(args.cpiPA, RInt(12))),
                RMax(RZero, RRound(RMul(RSub(args.retireAge, args.startAge), RInt(12)))))))

\* the capital is below one year's need by more than the rounding of the
\* arithmetic
belowOneYearNeed(args) ==
  XLt(XMul(startCapital(args), XAdd(XOne, roundingMargin)), oneYearNeed(args))

\* a growth rate of at most 1.2% a year either way
nearZero(rate) == RLe(RAbs(rate), R(3, 256))

\* the run-out age lies in the first 12 months after retireAge
exhaustedInFirstYear(f) ==
  /\ f.runOutAge # NULL
  /\ RGe(f.runOutAge[1], f.args.retireAge)
  /\ RLt(f.runOutAge[1], RAdd(f.args.retireAge, ROne))

\* C10 as stated: starting below one year's inflation-adjusted need at a
\* near-zero growth rate, the drawdown reports a run-out age within the first
\* 12 months.
C10_ExhaustionAsStated ==
  (/\ dd.pc = "done"
   /\ belowOneYearNeed(dd.args)
   /\ nearZero(dd.args.postRetGrowthPA)) =>
    exhaustedInFirstYear(dd)

\* C10 amended: the same when the capital is below the need by more than the
\* rounding of the arithmetic, the growth rate is zero or negative (near zero
\* or not), inflation is non-negative and the simulated horizon has at least
\* 12 monthly points.
C10_ExhaustionWithinHorizon ==
  (/\ dd.pc = "done"
   /\ belowOneYearNeed(dd.args)
   /\ RLe(dd.args.postRetGrowthPA, RZero)
   /\ RGe(dd.args.cpiPA, RZero)
   /\ RGe(dd.monthsToEnd, RInt(11))) =>
    exhaustedInFirstYear(dd)

\* a drawdown at a negative growth rate that lived on its capital for some
\* months and ran out in the first year
C10_Witness ==
  /\ dd.pc = "done"
  /\ RGt(startCapital(dd.args), RZero)
  /\ belowOneYearNeed(dd.args)
  /\ RLt(dd.args.postRetGrowthPA, RZero)
  /\ RGe(dd.monthsToEnd, RInt(11))
  /\ exhaustedInFirstYear(dd)
  /\ RGt(dd.runOutAge[1], dd.args.retireAge)

\* what the call of src/src/RetirementCalculator.tsx returned
drawdownResult ==
  [points |-> dd.pts, endBalance |-> dd.bal, pvAtStart |-> dd.pvAtStart,
   runOutAge |-> dd.runOutAge]

\* the same number: equal as numbers, or both NaN
sameNumber(x, y) == x = y \/ REq(x, y)

\* the same points, end balance, present value and run-out age
sameDrawdown(a, b) ==
  /\ Len(a.points) = Len(b.points)
  /\ \A i \in 1..Len(a.points) :
       /\ sameNumber(a.points[i].age, b.points[i].age)
       /\ sameNumber(a.points[i].balance, b.points[i].balance)
  /\ sameNumber(a.endBalance, b.endBalance)
  /\ sameNumber(a.pvAtStart, b.pvAtStart)
  /\ (a.runOutAge = NULL) = (b.runOutAge = NULL)
  /\ a.runOutAge # NULL => sameNumber(a.runOutAge[1], b.runOutAge[1])

\* C27: the two copies of simulateDrawdown (src/src/RetirementCalculator.tsx
\* and src/unnamed/part_002) return the same points, endBalance, pvAtStart and
\* runOutAge for every input, including inputs with retireAge < startAge or
\* endAge < startAge.
C27_CopiesAgree ==
  dd.pc = "done" =>
    sameDrawdown(drawdownResult, simulateDrawdown_part002(dd.args))

(* --------------------------- claims: accumulate ------------------------ *)
\* C7: a horizon that resolves to zero months (years = 0, negative, or less
\* than half a month) returns the starting balance as final value and an empty
\* yearly series, whatever the contribution, escalation and growth.
C7_ZeroHorizonIdentity ==
  (acc.pc = "done" /\ RLe(RRound(RMul(acc.args.years, RInt(12))), RZero)) =>
    /\ REq(acc.bal, acc.args.startBalance)
    /\ acc.perYear = <<>>

\* a finished call over a positive horizon shorter than half a month, with a
\* contribution and a growth rate that a single loop pass would have applied
C7_Witness ==
  /\ acc.pc = "done"
  /\ RGt(acc.args.years, RZero)
  /\ RLe(RRound(RMul(acc.args.years, RInt(12))), RZero)
  /\ RGt(acc.args.monthlyStart, RZero)
  /\ RGt(acc.args.growthPA, RZero)
  /\ REq(acc.bal, acc.args.startBalance)

\* inputs of the data model: amounts >= 0 and rates above -100%
validSource(args) ==
  /\ RGe(args.startBalance, RZero)
  /\ RGe(args.monthlyStart, RZero)
  /\ RGe(args.employerMatchPct, RZero)
  /\ RGt(args.escalationPA, RInt(-1))
  /\ RGt(args.growthPA, RInt(-1))

\* increments tried on each input
AmountBumps == {ROne, RInt(500)}
RateBumps == {R(3, 256), R(3, 32)}

\* raising the starting balance, the monthly contribution or the growth rate
\* of a finished call, the other inputs fixed, does not lower the final value
monotoneAtCall ==
  /\ \A d \in AmountBumps :
       /\ RGe(accumulate([acc.args EXCEPT !.startBalance = RAdd(@, d)]).fv, acc.bal)
       /\ RGe(accumulate([acc.args EXCEPT !.monthlyStart = RAdd(@, d)]).fv, acc.bal)
  /\ \A d \in RateBumps :
       RGe(accumulate([acc.args EXCEPT !.growthPA = RAdd(@, d)]).fv, acc.bal)

\* C8: for fixed other inputs, the final value accumulate returns is
\* non-decreasing in the starting balance, in the monthly contribution and in
\* the growth rate.
C8_AccumulateMonotone == acc.pc = "done" => monotoneAtCall

\* the same for the inputs of the data model only: on these it holds
monotoneOnValidSources == (acc.pc = "done" /\ validSource(acc.args)) => monotoneAtCall

\* the growth rate alone lowers the final value only of a negative balance or
\* a negative contribution
monotoneButForNegativeAmounts ==
  (/\ acc.pc = "done"
   /\ RGe(acc.args.startBalance, RZero)
   /\ RGe(acc.args.monthlyStart, RZero)
   /\ RGe(acc.args.employerMatchPct, RZero)) => monotoneAtCall


\* the call has returned
AccDone == acc.pc = "done"

\* the arguments with a negative starting balance or contribution made 0
nonNegativeAmounts(args) ==
  [args EXCEPT !.startBalance = RMax(RZero, @), !.monthlyStart = RMax(RZero, @)]

\* C14: accumulate treats a negative starting balance or a negative monthly
\* contribution as zero: its result equals its result with that input
\* replaced by 0.
C14_NegativeAmountsAsZero ==
  AccDone => REq(acc.bal, accumulate(nonNegativeAmounts(acc.args)).fv)

\* the arguments with each rate raised to the floor -0.99
flooredRates(args) ==
  [args EXCEPT !.growthPA = RMax(rateFloor, @), !.escalationPA = RMax(rateFloor, @)]

\* C15: every rate is clamped to the floor -0.99 before use: accumulate called
\* with a rate <= -1 returns the same result as with the rate -0.99.
C15_RatesFlooredBeforeUse ==
  (AccDone /\ RLe(acc.args.growthPA, RInt(-1)))
    => REq(acc.bal, accumulate(flooredRates(acc.args)).fv)

\* the larger of 1 and x
atLeastOne(x) == IF XLe(XOne, x) THEN x ELSE XOne

\* x is y up to the rounding of the arithmetic: |x - y| <= 2^-40 * max(1, |y|),
\* the two compared as exact values
roundedFrom(x, y) ==
  /\ isFinite(x) /\ isFinite(y)
  /\ XLe(XAbs(XSub(x, y)), XMul(roundingMargin, atLeastOne(XAbs(y))))

\* the tolerance of the runtime tests
oneMillionth == DecimalOf(BOne, 6)

\* |x - y| <= 1e-6 * max(1, |y|)
withinTolerance(x, y) ==
  /\ isFinite(x) /\ isFinite(y)
  /\ XLe(XAbs(XSub(x, y)), XMul(oneMillionth, atLeastOne(XAbs(y))))

\* the call ran at zero growth and zero escalation
zeroRates == REq(acc.args.growthPA, RZero) /\ REq(acc.args.escalationPA, RZero)

\* startBalance + months * monthlyStart * (1 + employerMatchPct)
sumOfDeposits ==
  RAdd(acc.args.startBalance,
       RMul(RMul(acc.months, acc.args.monthlyStart),
            RAdd(ROne, acc.args.employerMatchPct)))

\* every amount of the call is a whole number and the match is 0 or a half
wholeAmounts ==
  /\ RIsInt(acc.args.startBalance)
  /\ RIsInt(acc.args.monthlyStart)
  /\ acc.args.employerMatchPct \in {RZero, RHalf}

\* C19 as stated: with growthPA = 0 and escalationPA = 0 accumulate returns
\* exactly the starting balance plus the sum of the deposits:
\* fv = startBalance + months * monthlyStart * (1 + employerMatchPct).
C19_ZeroRatesSumOfDeposits ==
  (AccDone /\ zeroRates) => REq(acc.bal, sumOfDeposits)

\* C19 amended: with growthPA = 0 and escalationPA = 0 accumulate returns the
\* starting balance plus the sum of the deposits to within the tolerance 1e-6
\* of the runtime tests, and exactly that sum when the amounts are whole
\* numbers.
C19_ZeroRatesSumWithinTolerance ==
  (AccDone /\ zeroRates) =>
    /\ withinTolerance(acc.bal, sumOfDeposits)
    /\ wholeAmounts => REq(acc.bal, sumOfDeposits)

\* a finished call at zero rates over more than a year whose matched deposits
\* were added to a starting balance: 1000 + 25 * 100 * 1.5 = 4750
C19_Witness ==
  /\ AccDone
  /\ zeroRates
  /\ RGt(acc.months, RInt(12))
  /\ REq(acc.args.startBalance, RInt(1000))
  /\ REq(acc.args.monthlyStart, RInt(100))
  /\ REq(acc.args.employerMatchPct, RHalf)
  /\ REq(acc.bal, RInt(1000 + RToInt(acc.months) * 150))

\* the contribution of month m: flat within a year, escalated at each anniversary
contributionOfMonth(args, m) ==
  XMul(args.monthlyStart, XPow(XAdd(XOne, args.escalationPA), (m - 1) \div 12))

\* the deposit of month m, the employer's match included
depositOfMonth(args, m) ==
  XMul(contributionOfMonth(args, m), XAdd(XOne, args.employerMatchPct))

\* a loop pass of accumulate
monthPassed == acc.pc = "loop" /\ acc'.pc = "loop" /\ acc'.m = acc.m + 1

\* C23: in accumulate the amount deposited in month m (1-based) is
\* monthlyStart * (1 + escalationPA)^floor((m-1)/12) * (1 + employerMatchPct),
\* flat within each year and escalated at each anniversary, and it is added to
\* the balance before that month's growth (1 + growthPA/12) is applied; the
\* products are those of the real numbers, which the computed values equal up
\* to the rounding of the arithmetic.
C23_MonthlyDeposit ==
  [][monthPassed =>
       /\ roundedFrom(acc'.mContr, contributionOfMonth(acc.args, acc.m))
       /\ roundedFrom(acc'.bal,
                      XMul(XAdd(acc.bal, depositOfMonth(acc.args, acc.m)),
                           XAdd(XOne, RDiv(acc.args.growthPA, RInt(12)))))]_vars

\* month 13 has passed at an escalated, matched contribution: 100 * 1.0625
C23_Witness ==
  /\ acc.pc = "loop"
  /\ acc.m = 14
  /\ REq(acc.args.monthlyStart, RInt(100))
  /\ REq(acc.args.escalationPA, R(1, 16))
  /\ REq(acc.args.employerMatchPct, RHalf)
  /\ RGt(acc.args.growthPA, RZero)
  /\ REq(acc.mContr, R(425, 4))

\* accumulate over k whole years on the same source
finalValueAfterYears(args, k) == accumulate([args EXCEPT !.years = RInt(k)]).fv

\* C24: the yearly series of accumulate has floor(months / 12) entries, its
\* k-th entry is the final value accumulate returns for a horizon of k years
\* on the same source, and when months is a multiple of 12 the last entry is
\* the returned final value.
C24_YearlySeries ==
  AccDone =>
    /\ Len(acc.perYear) = RToInt(acc.months) \div 12
    /\ \A k \in 1..Len(acc.perYear) :
         REq(acc.perYear[k], finalValueAfterYears(acc.args, k))
    /\ (RGt(acc.months, RZero) /\ RToInt(acc.months) % 12 = 0)
         => REq(acc.perYear[Len(acc.perYear)], acc.bal)

\* a finished call over two years and a month: two entries, the last one not
\* the final value; or over one year, whose single entry is the final value
C24_Witness ==
  /\ AccDone
  /\ RGt(acc.args.monthlyStart, RZero) /\ RGt(acc.args.growthPA, RZero)
  /\ \/ RGt(acc.months, RInt(24)) /\ Len(acc.perYear) = 2 /\ ~REq(acc.perYear[2], acc.bal)
     \/ REq(acc.months, RInt(12)) /\ Len(acc.perYear) = 1 /\ REq(acc.perYear[1], acc.bal)

(* ------------------------ claims: retirement planner ------------------- *)
\* `results` has returned
PlanDone == plan.pc = "done"

\* the plan holds exactly one product, a valid capital source: amounts >= 0
singleSource ==
  /\ Len(plan.inp.products) = 1
  /\ RGe(plan.inp.products[1].currentBalance, RZero)
  /\ RGe(plan.inp.products[1].monthlyContribution, RZero)

\* the month-stepper run on the capital source the closed form was given
iterativeValue(p, inp, n) ==
  accumulate([years |-> n,
              startBalance |-> p.currentBalance,
              monthlyStart |-> p.monthlyContribution,
              escalationPA |-> orNullish(p.annualContributionEscalation, inp.inflation),
              growthPA |-> rNet(p, inp),
              employerMatchPct |-> RZero]).fv

\* C11: for one capital source (balance, monthly contribution, escalation,
\* growth rate) and a whole-year horizon, the closed-form value
\* fvLump + fvGrowingAnnuity equals, to floating-point tolerance, the final
\* value of the month-stepper accumulate.
C11_StrategiesAgree ==
  (PlanDone /\ singleSource)
    => withinTolerance(plan.assetsNominal,
                       iterativeValue(plan.inp.products[1], plan.inp, plan.n))

\* C12: in the funding assessment, a required capital <= 0 gives the funded
\* ratio 0 and the classification fully funded (health "good"); a required
\* capital > 0 gives the funded ratio projected / required.
C12_FundingAssessment ==
  PlanDone =>
    /\ RGe(RZero, plan.requiredCapitalReal)
         => (REq(plan.fundedRatio, RZero) /\ plan.health = "good")
    /\ RGt(plan.requiredCapitalReal, RZero)
         => REq(plan.fundedRatio, RDiv(plan.assetsReal, plan.requiredCapitalReal))

\* a product has just been grown
ProductGrown == plan.pc = "products" /\ plan.k > 1

\* the product's nominal return less its fees, floored at -0.99
statedNetRate(p) == RMax(rateFloor, RSub(p.nominalReturn, p.annualFees))

\* C13: the annual rate used to grow a product's balance and contributions is
\* its nominalReturn minus its annualFees, floored at -0.99, for every value
\* of nominalReturn, 0 and negative values included.
C13_NetRateOfEveryReturn ==
  ProductGrown => REq(plan.rNet[1], statedNetRate(plan.inp.products[plan.k - 1]))

(* ------------------------ claims: time-value formulas ------------------ *)
\* the formulas evaluated so far
TVPast(stage) ==
  CASE stage = "annuity" -> tv.pc \in {"escalating", "growing", "growingMonthly", "contribution", "done"}
    [] stage = "escalating" -> tv.pc \in {"growing", "growingMonthly", "contribution", "done"}
    [] stage = "growing" -> tv.pc \in {"growingMonthly", "contribution", "done"}
    [] stage = "growingMonthly" -> tv.pc \in {"contribution", "done"}
    [] stage = "contribution" -> tv.pc = "done"

\* a valid payment, rate and horizon: P >= 0, r > -1, years >= 0
validAnnuity == TVPast("annuity") /\ RGe(tv.args.P, RZero) /\ RGt(tv.args.r, RInt(-1))

\* 1 + r / 12
monthlyFactor == RAdd(ROne, RDiv(tv.args.r, RInt(12)))

\* C16: for all valid payments P, rates r and horizons n, the annuity future
\* value with timing 'begin' equals the future value with timing 'end'
\* multiplied by (1 + r/12).
C16_AnnuityDueRelation ==
  /\ validAnnuity => REq(tv.annuityBegin, RMul(tv.annuityEnd, monthlyFactor))
  /\ (validAnnuity /\ TVPast("growingMonthly"))
       => REq(tv.growingBegin, RMul(tv.growingEnd, monthlyFactor))

\* P * 12 * n * (1 + r)^n
equalRatesLimit ==
  XMul(XMul(XMul(tv.args.P, XInt(12)), tv.args.years),
       XPow(XAdd(XOne, tv.args.r), RToInt(tv.args.years)))

\* the worked example: P = 1000, r = g = 0.10, n = 1
workedExample ==
  /\ TVPast("growing")
  /\ REq(tv.args.P, RInt(1000)) /\ REq(tv.args.r, R(1, 10)) /\ REq(tv.args.g, R(1, 10))
  /\ REq(tv.args.years, ROne)

\* the two forms equal P * 12 * n * (1 + r)^n wherever they apply, within the
\* relative tolerance 1e-6 the specification sets for the comparison
equalRatesForms ==
  /\ (TVPast("escalating") /\ RGe(tv.args.P, RZero) /\ REq(tv.args.g, tv.args.r))
       => withinTolerance(tv.escalating, equalRatesLimit)
  /\ (TVPast("growing") /\ RLt(RAbs(RSub(tv.args.r, tv.args.g)), rateEpsilon))
       => withinTolerance(tv.growing, equalRatesLimit)

\* C17 as stated: when the escalation rate equals the growth rate, the
\* escalating-annuity future value of an initial monthly payment P over n whole
\* years is P * 12 * n * (1 + r)^n, which is 14520 for P = 1000, r = 0.10,
\* n = 1, in fvEscalatingAnnualContrib(P, r, r, n) and in the branch of
\* fvGrowingAnnuity taken when |r - g| < 1e-8.
C17_EqualRatesAsStated ==
  /\ equalRatesForms
  /\ workedExample => (/\ withinTolerance(tv.escalating, RInt(14520))
                       /\ withinTolerance(tv.growing, RInt(14520)))

\* C17 amended: when the escalation rate equals the growth rate, the
\* escalating-annuity future value of an initial monthly payment P >= 0 over n
\* whole years is P * 12 * n * (1 + r)^n, which is 13200 for P = 1000,
\* r = 0.10, n = 1, in the summed form fvEscalatingAnnualContrib(P, r, r, n) and
\* in the branch of fvGrowingAnnuity taken when |r - g| < 1e-8.
C17_EqualRatesLimit ==
  /\ equalRatesForms
  /\ workedExample => (/\ withinTolerance(tv.escalating, RInt(13200))
                       /\ withinTolerance(tv.growing, RInt(13200)))

\* the worked example evaluated by both forms, and a two-year case in which
\* the second year's escalated payment counts: 2 * 12000 * 1.21 = 29040
C17_Witness ==
  /\ TVPast("growing")
  /\ REq(tv.args.P, RInt(1000)) /\ REq(tv.args.r, R(1, 10)) /\ REq(tv.args.g, R(1, 10))
  /\ \/ /\ REq(tv.args.years, ROne)
        /\ withinTolerance(tv.escalating, RInt(13200))
        /\ withinTolerance(tv.growing, RInt(13200))
     \/ /\ REq(tv.args.years, RInt(2))
        /\ withinTolerance(tv.escalating, RInt(29040))
        /\ withinTolerance(tv.growing, RInt(29040))

\* C18: no time-value formula divides by zero: for a payment > 0 and years > 0,
\* fvOrdinaryAnnuityMonthly is finite at the annual rate 0, the growing-annuity
\* formulas are finite when the growth rate equals the escalation rate, and
\* the contributions' value the calculator reports is finite.
C18_NoDivisionByZero ==
  (RGt(tv.args.P, RZero) /\ RGt(tv.args.years, RZero)) =>
    /\ (TVPast("annuity") /\ REq(tv.args.r, RZero))
         => (isFinite(tv.annuityEnd) /\ isFinite(tv.annuityBegin))
    /\ (TVPast("growingMonthly") /\ REq(tv.args.g, tv.args.r))
         => (isFinite(tv.escalating) /\ isFinite(tv.growing)
             /\ isFinite(tv.growingEnd) /\ isFinite(tv.growingBegin))
    /\ TVPast("contribution") => isFinite(tv.contribution)

\* the month-k payment P0 * (1 + j)^(k-1), grown at i to the end of month n
paymentGrown(P0, i, j, n, k) ==
  XMul(XMul(P0, XPow(XAdd(XOne, j), k - 1)), XPow(XAdd(XOne, i), n - k))

\* the sum over k = from..to of the grown payments, by halves
RECURSIVE paymentsGrown(_, _, _, _, _, _)
paymentsGrown(P0, i, j, n, from, to) ==
  IF from > to THEN XZero
  ELSE IF from = to THEN paymentGrown(P0, i, j, n, from)
  ELSE XAdd(paymentsGrown(P0, i, j, n, from, (from + to) \div 2),
            paymentsGrown(P0, i, j, n, (from + to) \div 2 + 1, to))

\* C28: fvGrowingAnnuityMonthly(P0, r, g, months, 'end') equals the sum over
\* k = 1..months of P0 * (1 + g/12)^(k-1) * (1 + r/12)^(months-k) for every
\* pair of rates, r = g (the special-case branch) included; the sum is that
\* of the real numbers, which the computed value is to equal within 1e-6.
C28_GrowingAnnuityIsSum ==
  (TVPast("growingMonthly") /\ RGt(tv.args.P, RZero) /\ RGe(tv.args.years, ROne)) =>
    withinTolerance(tv.growingEnd,
        paymentsGrown(tv.args.P, RDiv(tv.args.r, RInt(12)), RDiv(tv.args.g, RInt(12)),
                      RToInt(tv.args.years) * 12, 1, RToInt(tv.args.years) * 12))

(* ----------------------- claims: investment calculator ----------------- *)
\* lumpSum, monthlyContribution, years and targetAmountTodayR are all 0
fourInputsZero(inp) ==
  /\ REq(inp.lumpSum, RZero)
  /\ REq(inp.monthlyContribution, RZero)
  /\ REq(inp.years, RZero)
  /\ REq(inp.targetAmountTodayR, RZero)

\* the inputs Reset is to leave alone
otherInputs(inp) ==
  <<inp.mode, inp.contribEscalationPA, inp.nominalReturnPA, inp.inflationPA,
    inp.timing, inp.hasTarget>>

\* a step of the Reset button
resetPressed == inv'.version = inv.version + 1

\* C20: lumpSum, monthlyContribution, years and targetAmountTodayR are 0 on
\* load, and pressing Reset from any state sets exactly those four inputs to 0
\* and leaves mode, contribEscalationPA, nominalReturnPA, inflationPA, timing
\* and hasTarget unchanged.
C20_ResetFrame ==
  /\ fourInputsZero(inv.inp)
  /\ [][resetPressed => /\ fourInputsZero(inv'.inp)
                         /\ otherInputs(inv'.inp) = otherInputs(inv.inp)]_vars

\* Reset has been pressed, the four inputs are 0 and every other input holds a
\* value that is not its default
C20_Witness ==
  /\ inv.pc = "ready"
  /\ inv.version > 0
  /\ fourInputsZero(inv.inp)
  /\ inv.inp.mode = "lump"
  /\ inv.inp.timing = "begin"
  /\ ~inv.inp.hasTarget
  /\ REq(inv.inp.contribEscalationPA, R(1, 200))
  /\ REq(inv.inp.nominalReturnPA, rateFloor)
  /\ REq(inv.inp.inflationPA, R(1, 200))

(* -------------------- claims: investment calculator results ------------ *)
\* the last point of the charted series
lastSeriesPoint ==
  RAdd(res.seriesLump[Len(res.seriesLump)], res.seriesContrib[Len(res.seriesContrib)])

\* C29: in the investment calculator's results, for every whole-year horizon
\* >= 1 and every mode, the last point of the charted series
\* (seriesLump[last] + seriesContrib[last]) equals the reported maturity value
\* projectedNominal = fvLump + fvContrib, whatever the hidden lump-sum or
\* monthly-contribution inputs hold.
C29_SeriesEndsAtMaturityValue ==
  (res.pc = "done" /\ RGe(res.inp.years, ROne)) => REq(lastSeriesPoint, res.projectedNominal)

(* ---------------------- claims: retirement planner form ---------------- *)
\* the auto product of the form, when it has one
theAuto ==
  form.inp.products[CHOOSE i \in 1..Len(form.inp.products) :
                      form.inp.products[i].id = AUTO_ID]

\* a contribution percentage above 0
anyPct == RGt(form.inp.employeeContribPct, RZero) \/ RGt(form.inp.employerContribPct, RZero)

\* C21: after the auto-management effect has run, following any sequence of
\* edits to salary, contribution percentages and products and any resets, the
\* products list contains the product with id __AUTO_EMPLOYER__ if and only if
\* employeeContribPct > 0 or employerContribPct > 0.
C21_AutoProductIffContributions ==
  settled => (hasAuto(form.inp.products) <=> anyPct)

\* the auto product sits in front of a product the user added and has been
\* edited by the user, with one percentage above 0 and the other below
C21_Witness ==
  /\ settled
  /\ Len(form.inp.products) = 2
  /\ form.inp.products[1].id = AUTO_ID
  /\ REq(form.inp.products[1].currentBalance, RInt(500))
  /\ RLt(form.inp.employeeContribPct, RZero)
  /\ REq(form.inp.employerContribPct, R(75, 1000))

\* C22: whenever the auto product is present and the effects have settled, its
\* monthlyContribution equals round(monthlySalary * employeeContribPct +
\* monthlySalary * employerContribPct), after any sequence of user edits, edits
\* of the auto product's own fields included.
C22_AutoContributionIsPayroll ==
  (settled /\ hasAuto(form.inp.products)) =>
    REq(theAuto.monthlyContribution,
        RRound(RAdd(RMul(form.inp.monthlySalary, form.inp.employeeContribPct),
                    RMul(form.inp.monthlySalary, form.inp.employerContribPct))))

====
